---- MODULE Spec2Model ----
(***************************************************************************)
(* ftree: GEDCOM parser (src/src/parser.py), family graph                  *)
(* (src/src/models.py), the two tree renderers (src/src/renderer.py,       *)
(* src/src/html_renderer.py) and the family formatter                      *)
(* (src/src/family_formatter.py).                                          *)
(*                                                                         *)
(* Python dictionaries are modelled as sequences of records in insertion   *)
(* order, looked up by id; Python's None is the string None for text       *)
(* fields and NoYear for a birth year.                                     *)
(***************************************************************************)
EXTENDS Integers, Sequences, FiniteSets, TLC

VARIABLES
    individuals,          \* FamilyTree.individuals, in insertion order
    families,             \* FamilyTree.families, in insertion order
    header,               \* FamilyTree.header
    submitter,            \* FamilyTree.submitter
    pstate,               \* position of parse_file: "parsing", "returned", "raised"
    consumed,             \* the input lines _parse_lines has taken so far
    current_type,         \* GedcomParser.current_type
    current_record,       \* GedcomParser.current_record
    current_birth,        \* GedcomParser.current_birth
    current_death,        \* GedcomParser.current_death
    current_marriage,     \* GedcomParser.current_marriage
    current_object,       \* GedcomParser.current_object
    renderer,             \* which renderer class runs: "html", "ascii", "none"
    phase,                \* position of render: "new", "roots", "post", "done", "error"
    rendered_individuals, \* the renderer's rendered_individuals set
    root_families,        \* the list _find_root_families returned
    root_idx,             \* index of the next root family of the loop
    output,               \* emitted persons, in order: [id, role, fam]
    orphans,              \* HtmlRenderer: the unconnected-individuals list
    depth,                \* deepest nesting of _render_children reached
    steps,                \* render steps taken so far
    group,                \* the last result of a query on the tree
    second,               \* a second renderer instance on the same tree, or None
    returned,             \* the documents render has returned, oldest first
    passes                \* the parse_file calls made on the parser, the running one included

vars == <<individuals, families, header, submitter, pstate, consumed,
          current_type, current_record, current_birth, current_death,
          current_marriage, current_object, renderer, phase,
          rendered_individuals, root_families, root_idx, output, orphans,
          depth, steps, group, second, returned, passes>>

treeVars == <<individuals, families, header, submitter>>
parserVars == <<pstate, consumed, current_type, current_record, current_birth,
                current_death, current_marriage, current_object, passes>>
renderVars == <<renderer, phase, rendered_individuals, root_families,
                root_idx, output, orphans, depth, steps, second, returned>>

-----------------------------------------------------------------------------
(* Bounds of the model *)

\* longest children_ids list of a generated family
MaxChildren == 2
\* nesting of _render_children at which the interpreter gives up (RecursionError)
RecursionLimit == 6
\* longest input of the parser
MaxLines == 4
\* most calls of one query on the same tree
MaxCalls == 2
\* most calls of parse_file on the same parser
MaxPasses == 2

\* ids of the individuals of a generated tree, in insertion order
IndIds == <<"I1", "I2", "I3">>
\* ids of the families of a generated tree, in insertion order
FamIds == <<"F1", "F2">>
\* an id no record of a generated tree has
DanglingInd == "I9"

None == "None"
NoYear == -1
NoneRec == [none |-> TRUE]

IsNone(r) == "none" \in DOMAIN r
\* Python truthiness of an optional string
Truthy(s) == s # None /\ s # ""

Range(s) == {s[i] : i \in 1..Len(s)}
IndSet == Range(IndIds)
FamSet == Range(FamIds)

-----------------------------------------------------------------------------
(* models.py: the entities *)

Individual(id) ==
    [id |-> id, given_name |-> None, surname |-> None, sex |-> None,
     birth_date |-> None, birth_place |-> None,
     death_date |-> None, death_place |-> None,
     family_spouse |-> <<>>, family_child |-> <<>>, objects |-> <<>>]

Family(id) ==
    [id |-> id, husband_id |-> None, wife_id |-> None, children_ids |-> <<>>,
     marriage_date |-> None, marriage_place |-> None,
     engagement_date |-> None, divorce_date |-> None]

\* a list that keeps every value put, for comparison
DictAppend(dict, rec) == Append(dict, rec)

\* dict.setdefault(key, value): the first value put under a key stays, for
\* comparison
DictSetDefault(dict, rec) ==
    IF \E i \in 1..Len(dict) : dict[i].id = rec.id
    THEN dict
    ELSE Append(dict, rec)

\* dict[key] = value on a dictionary kept as a sequence of records with an id
DictPut(dict, rec) ==
    IF \E i \in 1..Len(dict) : dict[i].id = rec.id
    THEN [i \in 1..Len(dict) |-> IF dict[i].id = rec.id THEN rec ELSE dict[i]]
    ELSE Append(dict, rec)

\* dict[key], which raises KeyError for a missing key, for comparison
DictIndex(dict, id) ==
    IF \E i \in 1..Len(dict) : dict[i].id = id
    THEN dict[CHOOSE i \in 1..Len(dict) : dict[i].id = id]
    ELSE [raised |-> "KeyError"]

\* dict.get(key): the value, or None for a missing key
DictGet(dict, id) ==
    IF \E i \in 1..Len(dict) : dict[i].id = id
    THEN dict[CHOOSE i \in 1..Len(dict) : dict[i].id = id]
    ELSE NoneRec

Keys(dict) == {dict[i].id : i \in 1..Len(dict)}

\* FamilyTree.get_individual / get_family: the entity, or None
get_individual(id) == DictGet(individuals, id)
get_family(id) == DictGet(families, id)

-----------------------------------------------------------------------------
(* models.py: birth year and display name *)

Digits == <<"0", "1", "2", "3", "4", "5", "6", "7", "8", "9">>
IsDigit(c) == c \in Range(Digits)
DigitVal(c) == (CHOOSE i \in 1..10 : Digits[i] = c) - 1
\* \w of the regular expression: letters, digits and the underscore
IsWordChar(c) == IsDigit(c) \/ c \in {"A", "B", "E", "F", "J", "N", "T", "_"}

\* the characters of each date text of the model
DateChars(d) ==
    CASE d = "0000" -> <<"0", "0", "0", "0">>
      [] d = "1990" -> <<"1", "9", "9", "0">>
      [] d = "2 FEB 2000" -> <<"2", " ", "F", "E", "B", " ", "2", "0", "0", "0">>
      [] d = "ABT 1990" -> <<"A", "B", "T", " ", "1", "9", "9", "0">>
      [] d = "19901" -> <<"1", "9", "9", "0", "1">>
      [] d = "JAN" -> <<"J", "A", "N">>
      [] d = "ABT1990" -> <<"A", "B", "T", "1", "9", "9", "0">>
      [] OTHER -> <<>>

\* re.search(r'\b(\d{4})\b', s): a match starts at i
YearMatchAt(s, i) ==
    /\ i + 3 <= Len(s)
    /\ \A j \in i..(i + 3) : IsDigit(s[j])
    /\ (i = 1 \/ ~IsWordChar(s[i - 1]))
    /\ (i + 3 = Len(s) \/ ~IsWordChar(s[i + 4]))

get_birth_year(ind) ==
    IF ~Truthy(ind.birth_date) THEN NoYear
    ELSE LET s == DateChars(ind.birth_date)
             hits == {i \in 1..Len(s) : YearMatchAt(s, i)}
         IN IF hits = {} THEN NoYear
            ELSE LET i == CHOOSE k \in hits : \A m \in hits : k <= m
                 IN DigitVal(s[i]) * 1000 + DigitVal(s[i + 1]) * 100
                    + DigitVal(s[i + 2]) * 10 + DigitVal(s[i + 3])

\* key=lambda c: c.get_birth_year() or 9999 (None and 0 are both falsy)
SortKey(c) ==
    LET y == get_birth_year(c)
    IN IF y = NoYear \/ y = 0 THEN 9999 ELSE y

\* list.sort(key=...): stable, ascending; keys[i] is the key of items[i]
InsertSorted(sorted, x) ==
    LET pos == Cardinality({i \in 1..Len(sorted) : sorted[i].key <= x.key})
    IN SubSeq(sorted, 1, pos) \o <<x>> \o SubSeq(sorted, pos + 1, Len(sorted))

RECURSIVE SortPairs(_)
SortPairs(s) ==
    IF s = <<>> THEN <<>>
    ELSE InsertSorted(SortPairs(SubSeq(s, 1, Len(s) - 1)), s[Len(s)])

StableSort(items, keys) ==
    LET sorted == SortPairs([i \in 1..Len(items) |-> [key |-> keys[i], item |-> items[i]]])
    IN [i \in 1..Len(items) |-> sorted[i].item]

\* the children ids that resolve to an individual, as individuals, in order
RECURSIVE ResolveChildren(_)
ResolveChildren(ids) ==
    IF ids = <<>> THEN <<>>
    ELSE LET child == get_individual(Head(ids))
         IN (IF IsNone(child) THEN <<>> ELSE <<child>>)
            \o ResolveChildren(Tail(ids))

\* a variant, for comparison: the children_ids list of the family is put in
\* birth-year order itself
get_family_group_sorts_family(family_id) ==
    LET family == get_family(family_id)
    IN IF IsNone(family) THEN [empty |-> TRUE]
       ELSE LET children == ResolveChildren(family.children_ids)
                sorted == StableSort(children,
                              [i \in 1..Len(children) |-> SortKey(children[i])])
            IN [family |-> [family EXCEPT
                               !.children_ids = [i \in 1..Len(sorted) |-> sorted[i].id]],
                husband |-> IF Truthy(family.husband_id)
                            THEN get_individual(family.husband_id) ELSE NoneRec,
                wife |-> IF Truthy(family.wife_id)
                         THEN get_individual(family.wife_id) ELSE NoneRec,
                children |-> sorted]

\* FamilyTree.get_family_group
get_family_group(family_id) ==
    LET family == get_family(family_id)
    IN IF IsNone(family) THEN [empty |-> TRUE]
       ELSE LET children == ResolveChildren(family.children_ids)
            IN [family |-> family,
                husband |-> IF Truthy(family.husband_id)
                            THEN get_individual(family.husband_id) ELSE NoneRec,
                wife |-> IF Truthy(family.wife_id)
                         THEN get_individual(family.wife_id) ELSE NoneRec,
                children |-> StableSort(children,
                                 [i \in 1..Len(children) |-> SortKey(children[i])])]

\* a list that outlives the call, for comparison
groups_kept(previous) == previous

\* groups = [] of get_all_family_groups; previous is what the last call returned
groups_at_entry(previous) == <<>>

\* if group: a result of get_family_group is kept unless it is the empty dict
GroupTruthy(g) == "empty" \notin DOMAIN g

\* the loop over self.families.keys()
RECURSIVE groups_loop(_, _)
groups_loop(fams, groups) ==
    IF fams = <<>> THEN groups
    ELSE LET g == get_family_group(Head(fams).id)
         IN groups_loop(Tail(fams), IF GroupTruthy(g) THEN Append(groups, g) ELSE groups)

\* a variant, for comparison: a group without husband and wife counts as empty
get_all_family_groups_with_parents(previous) ==
    SelectSeq(groups_loop(families, groups_at_entry(previous)),
              LAMBDA g : ~IsNone(g.husband) \/ ~IsNone(g.wife))

\* FamilyTree.get_all_family_groups
get_all_family_groups(previous) == groups_loop(families, groups_at_entry(previous))

\* 'family': family -- the family of a group is the tree's own Family object,
\* so the tree holds whatever the call made of it
RECURSIVE AliasedFamilies(_, _)
AliasedFamilies(fams, groups) ==
    IF groups = <<>> THEN fams
    ELSE AliasedFamilies(IF GroupTruthy(Head(groups))
                         THEN DictPut(fams, Head(groups).family) ELSE fams,
                         Tail(groups))

\* FamilyTree.get_roots
get_roots == SelectSeq(individuals, LAMBDA individual : individual.family_child = <<>>)

\* Individual.name, as the list of words that " ".join puts together
name(ind) ==
    LET parts == (IF Truthy(ind.given_name) THEN <<ind.given_name>> ELSE <<>>)
                 \o (IF Truthy(ind.surname) THEN <<ind.surname>> ELSE <<>>)
    IN IF parts # <<>> THEN parts ELSE <<ind.id>>

\* the words of the model in code point order; str comparison goes by it
WordOrder == <<"Ann", "Bob", "Doe", "F1", "F2", "F3", "I1", "I2", "I3", "I4", "I9", "None">>
WordRank(w) == CHOOSE i \in 1..Len(WordOrder) : WordOrder[i] = w

RECURSIVE NameLess(_, _)
NameLess(a, b) ==
    IF b = <<>> THEN FALSE
    ELSE IF a = <<>> THEN TRUE
    ELSE IF Head(a) = Head(b) THEN NameLess(Tail(a), Tail(b))
    ELSE WordRank(Head(a)) < WordRank(Head(b))

\* sort(key=lambda i: i.name or i.id): stable, ascending
InsertByName(sorted, x) ==
    LET pos == Cardinality({i \in 1..Len(sorted) : ~NameLess(name(x), name(sorted[i]))})
    IN SubSeq(sorted, 1, pos) \o <<x>> \o SubSeq(sorted, pos + 1, Len(sorted))

RECURSIVE SortByName(_)
SortByName(s) ==
    IF s = <<>> THEN <<>>
    ELSE InsertByName(SortByName(SubSeq(s, 1, Len(s) - 1)), s[Len(s)])

-----------------------------------------------------------------------------
(* The traversal state threaded through one render: the rendered set, the   *)
(* persons emitted so far, whether an exception is propagating, and the     *)
(* deepest nesting of _render_children.                                     *)

\* one person card (html) or one person on an output line (ascii)
Emit(st, ind, role, family_id) ==
    [st EXCEPT !.output = Append(@, [id |-> ind.id, role |-> role, fam |-> family_id])]

\* self.rendered_individuals.add(id)
Mark(st, id) == [st EXCEPT !.rendered = @ \cup {id}]

Max(a, b) == IF a >= b THEN a ELSE b

-----------------------------------------------------------------------------
(* html_renderer.py: HtmlRenderer *)

\* a stricter root test, for comparison: both parents must be without parents
H_is_root_both_parents(family) ==
    LET husband == IF Truthy(family.husband_id)
                   THEN get_individual(family.husband_id) ELSE NoneRec
        wife == IF Truthy(family.wife_id)
                THEN get_individual(family.wife_id) ELSE NoneRec
    IN /\ (~IsNone(husband) /\ husband.family_child = <<>>)
       /\ (~IsNone(wife) /\ wife.family_child = <<>>)

H_is_root(family) ==
    LET husband == IF Truthy(family.husband_id)
                   THEN get_individual(family.husband_id) ELSE NoneRec
        wife == IF Truthy(family.wife_id)
                THEN get_individual(family.wife_id) ELSE NoneRec
    IN \/ (~IsNone(husband) /\ husband.family_child = <<>>)
       \/ (~IsNone(wife) /\ wife.family_child = <<>>)

H_find_root_families == SelectSeq(families, H_is_root)

\* a variant, for comparison: the ids of the family are marked as rendered
\* whether or not the lookup finds an individual
H_render_parents_marks_ids(family, st) ==
    LET husband == IF Truthy(family.husband_id)
                   THEN get_individual(family.husband_id) ELSE NoneRec
        st1 == IF ~IsNone(husband) /\ husband.id \notin st.rendered
               THEN Mark(Emit(st, husband, "husband", family.id), husband.id)
               ELSE IF Truthy(family.husband_id) THEN Mark(st, family.husband_id)
               ELSE st
        wife == IF Truthy(family.wife_id)
                THEN get_individual(family.wife_id) ELSE NoneRec
    IN IF ~IsNone(wife) /\ wife.id \notin st1.rendered
       THEN Mark(Emit(st1, wife, "wife", family.id), wife.id)
       ELSE IF Truthy(family.wife_id) THEN Mark(st1, family.wife_id)
       ELSE st1

H_render_parents(family, st) ==
    LET husband == IF Truthy(family.husband_id)
                   THEN get_individual(family.husband_id) ELSE NoneRec
        st1 == IF ~IsNone(husband) /\ husband.id \notin st.rendered
               THEN Mark(Emit(st, husband, "husband", family.id), husband.id)
               ELSE st
        wife == IF Truthy(family.wife_id)
                THEN get_individual(family.wife_id) ELSE NoneRec
    IN IF ~IsNone(wife) /\ wife.id \notin st1.rendered
       THEN Mark(Emit(st1, wife, "wife", family.id), wife.id)
       ELSE st1

\* children.sort(key=lambda c: c.get_birth_year() or 9999) of _render_children
H_SortKey(c) ==
    LET y == get_birth_year(c)
    IN IF y = NoYear \/ y = 0 THEN 9999 ELSE y

\* a child test that never consults the rendered set, for comparison
H_child_is_always_new(child, st) == TRUE

\* if child.id not in self.rendered_individuals, of _render_children
H_child_is_new(child, st) == child.id \notin st.rendered

RECURSIVE H_render_children(_, _, _)
RECURSIVE H_children_loop(_, _, _, _)
RECURSIVE H_child_families_loop(_, _, _, _)
RECURSIVE H_render_descendant_family(_, _, _, _)

\* _render_children at nesting d; beyond RecursionLimit the call raises
\* RecursionError, which only render catches
H_render_children(family, st, d) ==
    IF st.err THEN st
    ELSE IF d > RecursionLimit THEN [st EXCEPT !.err = TRUE]
    ELSE IF family.children_ids = <<>> THEN st
    ELSE LET children == ResolveChildren(family.children_ids)
             sorted == StableSort(children,
                           [i \in 1..Len(children) |-> H_SortKey(children[i])])
         IN H_children_loop(family, sorted, [st EXCEPT !.depth = Max(@, d)], d)

\* for child in children
H_children_loop(family, children, st, d) ==
    IF children = <<>> \/ st.err THEN st
    ELSE LET child == Head(children)
         IN IF H_child_is_new(child, st)
            THEN LET st1 == Mark(Emit(st, child, "child", family.id), child.id)
                     st2 == H_child_families_loop(child, child.family_spouse, st1, d)
                 IN H_children_loop(family, Tail(children), st2, d)
            ELSE H_children_loop(family, Tail(children), st, d)

\* for spouse_family_id in child.family_spouse
H_child_families_loop(child, fids, st, d) ==
    IF fids = <<>> \/ st.err THEN st
    ELSE LET spouse_family == get_family(Head(fids))
             st1 == IF IsNone(spouse_family) THEN st
                    ELSE H_render_descendant_family(spouse_family, child, st, d + 1)
         IN H_child_families_loop(child, Tail(fids), st1, d)

\* the spouse is given a card whether or not it is in the rendered set
\* (the card's role, "wife" or "husband", is recorded as "spouse")
H_render_descendant_family(family, known_parent, st, d) ==
    LET spouse_id == IF family.husband_id = known_parent.id THEN family.wife_id
                     ELSE IF family.wife_id = known_parent.id THEN family.husband_id
                     ELSE None
        spouse == IF Truthy(spouse_id) THEN get_individual(spouse_id) ELSE NoneRec
        st1 == IF IsNone(spouse) THEN st
               ELSE Mark(Emit(st, spouse, "spouse", family.id), spouse_id)
    IN H_render_children(family, st1, d)

H_render_family_tree(family, st) ==
    H_render_children(family, H_render_parents(family, st), 1)

H_connected_ids ==
    UNION {(IF Truthy(families[i].husband_id) THEN {families[i].husband_id} ELSE {})
           \cup (IF Truthy(families[i].wife_id) THEN {families[i].wife_id} ELSE {})
           \cup Range(families[i].children_ids) : i \in 1..Len(families)}

\* a test that looks at husbands and wives only, for comparison
H_is_not_parent(individual) ==
    \A i \in 1..Len(families) :
        individual.id \notin {families[i].husband_id, families[i].wife_id}

\* if individual.id not in connected_ids
H_is_orphan(individual) == individual.id \notin H_connected_ids

H_find_orphaned_individuals == SortByName(SelectSeq(individuals, H_is_orphan))

-----------------------------------------------------------------------------
(* renderer.py: AsciiRenderer *)

A_is_root(family) ==
    LET husband == IF Truthy(family.husband_id)
                   THEN get_individual(family.husband_id) ELSE NoneRec
        wife == IF Truthy(family.wife_id)
                THEN get_individual(family.wife_id) ELSE NoneRec
    IN \/ (~IsNone(husband) /\ husband.family_child = <<>>)
       \/ (~IsNone(wife) /\ wife.family_child = <<>>)

A_find_root_families == SelectSeq(families, A_is_root)

A_render_parents(family, st) ==
    LET husband == IF Truthy(family.husband_id)
                   THEN get_individual(family.husband_id) ELSE NoneRec
        st1 == IF ~IsNone(husband) /\ husband.id \notin st.rendered
               THEN Mark(Emit(st, husband, "husband", family.id), husband.id)
               ELSE st
        wife == IF Truthy(family.wife_id)
                THEN get_individual(family.wife_id) ELSE NoneRec
    IN IF ~IsNone(wife) /\ wife.id \notin st1.rendered
       THEN Mark(Emit(st1, wife, "wife", family.id), wife.id)
       ELSE st1

\* for i, child_id in enumerate(family.children_ids), of _render_descendant_family
RECURSIVE A_descendant_children_loop(_, _, _)
A_descendant_children_loop(family, ids, st) ==
    IF ids = <<>> THEN st
    ELSE LET child == get_individual(Head(ids))
             st1 == IF IsNone(child) THEN st
                    ELSE Mark(Emit(st, child, "descendant_child", family.id), Head(ids))
         IN A_descendant_children_loop(family, Tail(ids), st1)

\* a variant, for comparison: the spouse id is marked before the lookup is tested
A_render_descendant_family_marks_first(family, known_parent, st) ==
    LET spouse_id == IF family.husband_id = known_parent.id THEN family.wife_id
                     ELSE IF family.wife_id = known_parent.id THEN family.husband_id
                     ELSE None
        spouse == IF Truthy(spouse_id) THEN get_individual(spouse_id) ELSE NoneRec
        st1 == IF ~Truthy(spouse_id) THEN st
               ELSE IF IsNone(spouse) THEN Mark(st, spouse_id)
               ELSE Mark(Emit(st, spouse, "spouse", family.id), spouse_id)
    IN A_descendant_children_loop(family, family.children_ids, st1)

\* spouse and children are emitted whether or not they are in the rendered set
A_render_descendant_family(family, known_parent, st) ==
    LET spouse_id == IF family.husband_id = known_parent.id THEN family.wife_id
                     ELSE IF family.wife_id = known_parent.id THEN family.husband_id
                     ELSE None
        spouse == IF Truthy(spouse_id) THEN get_individual(spouse_id) ELSE NoneRec
        st1 == IF IsNone(spouse) THEN st
               ELSE Mark(Emit(st, spouse, "spouse", family.id), spouse_id)
    IN A_descendant_children_loop(family, family.children_ids, st1)

\* for child_family_id in child.family_spouse
RECURSIVE A_child_families_loop(_, _, _)
A_child_families_loop(child, fids, st) ==
    IF fids = <<>> THEN st
    ELSE LET child_family == get_family(Head(fids))
             st1 == IF IsNone(child_family) THEN st
                    ELSE A_render_descendant_family(child_family, child, st)
         IN A_child_families_loop(child, Tail(fids), st1)

\* for i, child_id in enumerate(family.children_ids), of _render_family_tree:
\* declaration order
RECURSIVE A_children_loop(_, _, _)
A_children_loop(family, ids, st) ==
    IF ids = <<>> THEN st
    ELSE LET child == get_individual(Head(ids))
         IN IF IsNone(child) \/ child.id \in st.rendered
            THEN A_children_loop(family, Tail(ids), st)
            ELSE LET st1 == Mark(Emit(st, child, "child", family.id), Head(ids))
                     st2 == A_child_families_loop(child, child.family_spouse, st1)
                 IN A_children_loop(family, Tail(ids), st2)

\* a variant, for comparison: the children are rendered before the parents
A_render_family_tree_children_first(family, st) ==
    A_render_parents(family, A_children_loop(family, family.children_ids, st))

A_render_family_tree(family, st) ==
    A_children_loop(family, family.children_ids, A_render_parents(family, st))

\* the loop over self.tree.individuals.values() that ends render
RECURSIVE A_unconnected_loop(_, _)
A_unconnected_loop(inds, st) ==
    IF inds = <<>> THEN st
    ELSE LET individual == Head(inds)
             st1 == IF individual.id \notin st.rendered
                    THEN Mark(Emit(st, individual, "unconnected", None), individual.id)
                    ELSE st
         IN A_unconnected_loop(Tail(inds), st1)

-----------------------------------------------------------------------------
(* parser.py: GedcomParser.  A physical line is [blank, parts]: blank when  *)
(* it is empty after strip(), else parts is what line.split(None, 2) gives  *)
(* once a leading byte-order mark is removed.                               *)

\* the tokens int() accepts, token i standing for i - 1
IntTokens == <<"0", "1", "2", "3">>
IsIntToken(tok) == tok \in Range(IntTokens)
IntOf(tok) == (CHOOSE i \in 1..Len(IntTokens) : IntTokens[i] = tok) - 1

\* parts[1].startswith('@')
Pointers == {"@I1@", "@I2@", "@F1@", "@F2@", "@S1@", "@N1@"}
IsPointer(tok) == tok \in Pointers

\* (level, tag, value), or the ValueError of int(parts[0])
parse_line(parts) ==
    IF parts = <<>> THEN [ok |-> TRUE, level |-> 0, tag |-> "", value |-> None]
    ELSE IF ~IsIntToken(parts[1]) THEN [ok |-> FALSE]
    ELSE IF Len(parts) = 1
         THEN [ok |-> TRUE, level |-> IntOf(parts[1]), tag |-> "", value |-> None]
    ELSE IF IsPointer(parts[2])
         THEN IF Len(parts) = 3
              THEN [ok |-> TRUE, level |-> IntOf(parts[1]), tag |-> parts[3], value |-> parts[2]]
              ELSE [ok |-> TRUE, level |-> IntOf(parts[1]), tag |-> "", value |-> parts[2]]
    ELSE [ok |-> TRUE, level |-> IntOf(parts[1]), tag |-> parts[2],
          value |-> IF Len(parts) = 3 THEN parts[3] ELSE None]

\* the record in progress when it is a dictionary: {} and {'id': value}
EmptyDict == [dict |-> "empty"]
SubmDict(value) == [dict |-> "subm", id |-> value]

\* truth value of self.current_record: None and {} are false
RecordTruthy(rec) == ~IsNone(rec) /\ rec # EmptyDict

\* the parser and its tree as one value
ParserState ==
    [individuals |-> individuals, families |-> families, header |-> header,
     submitter |-> submitter, current_type |-> current_type,
     current_record |-> current_record, current_birth |-> current_birth,
     current_death |-> current_death, current_marriage |-> current_marriage,
     current_object |-> current_object]

save_current_record(P) ==
    IF P.current_type = "INDI" /\ RecordTruthy(P.current_record)
    THEN [P EXCEPT !.individuals = DictPut(@, P.current_record)]
    ELSE IF P.current_type = "FAM" /\ RecordTruthy(P.current_record)
    THEN [P EXCEPT !.families = DictPut(@, P.current_record)]
    ELSE IF P.current_type = "HEAD" /\ RecordTruthy(P.current_record)
    THEN [P EXCEPT !.header = P.current_record]
    ELSE IF P.current_type = "SUBM" /\ RecordTruthy(P.current_record)
    THEN [P EXCEPT !.submitter = P.current_record]
    ELSE P

\* a level-0 step that starts the new record without saving the old one,
\* for comparison
process_level0_without_save(P, tag, value) ==
    CASE tag = "INDI" ->
           [P EXCEPT !.current_type = "INDI", !.current_record = Individual(value)]
      [] tag = "FAM" ->
           [P EXCEPT !.current_type = "FAM", !.current_record = Family(value)]
      [] tag = "HEAD" ->
           [P EXCEPT !.current_type = "HEAD", !.current_record = EmptyDict]
      [] tag = "SUBM" ->
           [P EXCEPT !.current_type = "SUBM", !.current_record = SubmDict(value)]
      [] OTHER ->
           [P EXCEPT !.current_type = None, !.current_record = NoneRec]

\* a level-0 step that keeps the record in progress at TRLR and at a tag
\* it does not know, for comparison
process_level0_keeps_record(P0, tag, value) ==
    LET P == save_current_record(P0)
    IN CASE tag = "INDI" ->
              [P EXCEPT !.current_type = "INDI", !.current_record = Individual(value)]
         [] tag = "FAM" ->
              [P EXCEPT !.current_type = "FAM", !.current_record = Family(value)]
         [] tag = "HEAD" ->
              [P EXCEPT !.current_type = "HEAD", !.current_record = EmptyDict]
         [] tag = "SUBM" ->
              [P EXCEPT !.current_type = "SUBM", !.current_record = SubmDict(value)]
         [] OTHER -> P

process_level0(P0, tag, value) ==
    LET P == save_current_record(P0)
    IN CASE tag = "INDI" ->
              [P EXCEPT !.current_type = "INDI", !.current_record = Individual(value)]
         [] tag = "FAM" ->
              [P EXCEPT !.current_type = "FAM", !.current_record = Family(value)]
         [] tag = "HEAD" ->
              [P EXCEPT !.current_type = "HEAD", !.current_record = EmptyDict]
         [] tag = "SUBM" ->
              [P EXCEPT !.current_type = "SUBM", !.current_record = SubmDict(value)]
         [] OTHER ->
              [P EXCEPT !.current_type = None, !.current_record = NoneRec]

\* name_str.split('/') and str.strip() on the name values of the model
HasSlash(v) == v \in {"Ann /Doe/", "/Doe/", "Bob /Doe", "Ann / Doe /"}
SlashParts(v) ==
    CASE v = "Ann /Doe/" -> <<"Ann ", "Doe", "">>
      [] v = "/Doe/" -> <<"", "Doe", "">>
      [] v = "Bob /Doe" -> <<"Bob ", "Doe">>
      [] v = "Ann / Doe /" -> <<"Ann ", " Doe ", "">>
      [] OTHER -> <<v>>
Strip(v) ==
    CASE v = "Ann " -> "Ann"
      [] v = "Bob " -> "Bob"
      [] v = " Doe " -> "Doe"
      [] OTHER -> v

\* a variant, for comparison: a name without slashes has no surname
parse_name_resets_surname(rec, name_str) ==
    IF ~Truthy(name_str) THEN rec
    ELSE IF HasSlash(name_str)
    THEN LET parts == SlashParts(name_str)
         IN IF Len(parts) >= 2
            THEN [rec EXCEPT !.given_name = Strip(parts[1]), !.surname = Strip(parts[2])]
            ELSE rec
    ELSE [rec EXCEPT !.given_name = Strip(name_str), !.surname = None]

parse_name(rec, name_str) ==
    IF ~Truthy(name_str) THEN rec
    ELSE IF HasSlash(name_str)
    THEN LET parts == SlashParts(name_str)
         IN IF Len(parts) >= 2
            THEN [rec EXCEPT !.given_name = Strip(parts[1]), !.surname = Strip(parts[2])]
            ELSE rec
    ELSE [rec EXCEPT !.given_name = Strip(name_str)]

\* a level-1 step that leaves the flags of the line before as they are, for
\* comparison
process_level1_without_reset(P, tag, value) ==
    IF ~RecordTruthy(P.current_record) THEN P
    ELSE IF P.current_type = "INDI"
    THEN CASE tag = "NAME" -> [P EXCEPT !.current_record = parse_name(@, value)]
           [] tag = "SEX" -> [P EXCEPT !.current_record.sex = value]
           [] tag = "BIRT" -> [P EXCEPT !.current_birth = TRUE]
           [] tag = "DEAT" -> [P EXCEPT !.current_death = TRUE]
           [] tag = "FAMS" ->
                [P EXCEPT !.current_record.family_spouse = Append(@, value)]
           [] tag = "FAMC" ->
                [P EXCEPT !.current_record.family_child = Append(@, value)]
           [] tag = "OBJE" -> [P EXCEPT !.current_object = TRUE]
           [] OTHER -> P
    ELSE IF P.current_type = "FAM"
    THEN CASE tag = "HUSB" -> [P EXCEPT !.current_record.husband_id = value]
           [] tag = "WIFE" -> [P EXCEPT !.current_record.wife_id = value]
           [] tag = "CHIL" ->
                [P EXCEPT !.current_record.children_ids = Append(@, value)]
           [] tag = "MARR" -> [P EXCEPT !.current_marriage = TRUE]
           [] OTHER -> P
    ELSE P

process_level1(P0, tag, value) ==
    IF ~RecordTruthy(P0.current_record) THEN P0
    ELSE LET P == [P0 EXCEPT !.current_birth = FALSE, !.current_death = FALSE,
                             !.current_marriage = FALSE, !.current_object = FALSE]
         IN IF P.current_type = "INDI"
            THEN CASE tag = "NAME" ->
                        [P EXCEPT !.current_record = parse_name(@, value)]
                   [] tag = "SEX" -> [P EXCEPT !.current_record.sex = value]
                   [] tag = "BIRT" -> [P EXCEPT !.current_birth = TRUE]
                   [] tag = "DEAT" -> [P EXCEPT !.current_death = TRUE]
                   [] tag = "FAMS" ->
                        [P EXCEPT !.current_record.family_spouse = Append(@, value)]
                   [] tag = "FAMC" ->
                        [P EXCEPT !.current_record.family_child = Append(@, value)]
                   [] tag = "OBJE" -> [P EXCEPT !.current_object = TRUE]
                   [] OTHER -> P
            ELSE IF P.current_type = "FAM"
            THEN CASE tag = "HUSB" -> [P EXCEPT !.current_record.husband_id = value]
                   [] tag = "WIFE" -> [P EXCEPT !.current_record.wife_id = value]
                   [] tag = "CHIL" ->
                        [P EXCEPT !.current_record.children_ids = Append(@, value)]
                   [] tag = "MARR" -> [P EXCEPT !.current_marriage = TRUE]
                   [] OTHER -> P
            ELSE P

\* the flags exist only once a level-1 line has set them (hasattr); until
\* then they read as false
process_level2(P, tag, value) ==
    IF ~RecordTruthy(P.current_record) THEN P
    ELSE IF P.current_type = "INDI"
    THEN IF P.current_birth
         THEN CASE tag = "DATE" -> [P EXCEPT !.current_record.birth_date = value]
                [] tag = "PLAC" -> [P EXCEPT !.current_record.birth_place = value]
                [] OTHER -> P
         ELSE IF P.current_death
         THEN CASE tag = "DATE" -> [P EXCEPT !.current_record.death_date = value]
                [] tag = "PLAC" -> [P EXCEPT !.current_record.death_place = value]
                [] OTHER -> P
         ELSE IF P.current_object
         THEN IF tag = "FILE"
              THEN [P EXCEPT !.current_record.objects = Append(@, value),
                             !.current_object = FALSE]
              ELSE P
         ELSE IF tag = "GIVN" THEN [P EXCEPT !.current_record.given_name = value]
         ELSE IF tag = "SURN" THEN [P EXCEPT !.current_record.surname = value]
         ELSE P
    ELSE IF P.current_type = "FAM"
    THEN IF P.current_marriage
         THEN CASE tag = "DATE" -> [P EXCEPT !.current_record.marriage_date = value]
                [] tag = "PLAC" -> [P EXCEPT !.current_record.marriage_place = value]
                [] OTHER -> P
         ELSE P
    ELSE P

\* a dispatch that takes every deeper level for level 2, for comparison
dispatch_line_deep(P, t) ==
    IF t.level = 0 THEN process_level0(P, t.tag, t.value)
    ELSE IF t.level = 1 THEN process_level1(P, t.tag, t.value)
    ELSE process_level2(P, t.tag, t.value)

\* a dispatch that commits the record after every line, for comparison
dispatch_line_commits(P, t) ==
    save_current_record(
        IF t.level = 0 THEN process_level0(P, t.tag, t.value)
        ELSE IF t.level = 1 THEN process_level1(P, t.tag, t.value)
        ELSE IF t.level = 2 THEN process_level2(P, t.tag, t.value)
        ELSE P)

\* the body of the loop of _parse_lines for one line that parses
dispatch_line(P, t) ==
    IF t.level = 0 THEN process_level0(P, t.tag, t.value)
    ELSE IF t.level = 1 THEN process_level1(P, t.tag, t.value)
    ELSE IF t.level = 2 THEN process_level2(P, t.tag, t.value)
    ELSE P

Line(parts) == [blank |-> FALSE, parts |-> parts]
BlankLine == [blank |-> TRUE, parts |-> <<>>]

\* the lines an input of the model is made of
InputLines ==
    {Line(<<"0", "@I1@", "INDI">>), Line(<<"0", "@I2@", "INDI">>),
     Line(<<"0", "@F1@", "FAM">>), Line(<<"0", "TRLR">>),
     Line(<<"1", "NAME", "Ann /Doe/">>), Line(<<"1", "BIRT">>),
     Line(<<"2", "DATE", "1990">>), Line(<<"1", "FAMS", "@F1@">>),
     Line(<<"1", "HUSB", "@I1@">>), Line(<<"1", "CHIL", "@I2@">>),
     Line(<<"x", "NAME", "Bob">>), BlankLine}

SetParser(P) ==
    /\ individuals' = P.individuals
    /\ families' = P.families
    /\ header' = P.header
    /\ submitter' = P.submitter
    /\ current_type' = P.current_type
    /\ current_record' = P.current_record
    /\ current_birth' = P.current_birth
    /\ current_death' = P.current_death
    /\ current_marriage' = P.current_marriage
    /\ current_object' = P.current_object

\* GedcomParser.__init__ and the start of parse_file
ParseInit ==
    /\ individuals = <<>>
    /\ families = <<>>
    /\ header = NoneRec
    /\ submitter = NoneRec
    /\ pstate = "parsing"
    /\ consumed = <<>>
    /\ passes = 1
    /\ current_type = None
    /\ current_record = NoneRec
    /\ current_birth = FALSE
    /\ current_death = FALSE
    /\ current_marriage = FALSE
    /\ current_object = FALSE
    /\ renderer = "none"
    /\ phase = "new"
    /\ rendered_individuals = {}
    /\ root_families = <<>>
    /\ root_idx = 1
    /\ output = <<>>
    /\ orphans = <<>>
    /\ depth = 0
    /\ steps = 0
    /\ second = NoneRec
    /\ returned = <<>>
    /\ group = NoneRec

\* one turn of the loop of _parse_lines: the ValueError of a level token
\* that is no integer leaves _parse_lines and parse_file
ParseStep(line) ==
    /\ pstate = "parsing"
    /\ Len(consumed) < MaxLines
    /\ consumed' = Append(consumed, line)
    /\ IF line.blank
       THEN /\ pstate' = pstate
            /\ SetParser(ParserState)
       ELSE LET t == parse_line(line.parts)
            IN IF t.ok
               THEN /\ pstate' = pstate
                    /\ SetParser(dispatch_line(ParserState, t))
               ELSE /\ pstate' = "raised"
                    /\ SetParser(ParserState)
    /\ UNCHANGED <<renderVars, group, passes>>

\* a pass over a file of record, name, birth and pointer lines
ParseLine == \E line \in InputLines : ParseStep(line)

\* end of input: parse_file saves the final record and returns the tree
ParseReturn ==
    /\ pstate = "parsing"
    /\ SetParser(save_current_record(ParserState))
    /\ pstate' = "returned"
    /\ UNCHANGED <<consumed, renderVars, group, passes>>

ParseNext == ParseLine \/ ParseReturn

SpecParse == ParseInit /\ [][ParseNext]_vars

\* the lines of a file with header, submitter, trailer and note records and
\* with tags and levels the parser does not know
SkipLines ==
    {Line(<<"0", "HEAD">>), Line(<<"0", "@S1@", "SUBM">>),
     Line(<<"0", "TRLR">>), Line(<<"0", "@N1@", "NOTE">>),
     Line(<<"0", "@I1@", "INDI">>), Line(<<"0", "@F1@", "FAM">>),
     Line(<<"1", "NAME", "Ann /Doe/">>), Line(<<"1", "BIRT">>),
     Line(<<"1", "OCCU", "Smith">>), Line(<<"1", "HUSB", "@I1@">>),
     Line(<<"2", "DATE", "1990">>), Line(<<"2", "TYPE", "x">>),
     Line(<<"3", "DATE", "1800">>)}

\* a pass over such a file
ParseSkipLine == \E line \in SkipLines : ParseStep(line)

ParseSkipNext == ParseSkipLine \/ ParseReturn

SpecParseSkip == ParseInit /\ [][ParseSkipNext]_vars

\* the lines of a file whose records have NAME lines of every form: given
\* name and surname, surname only, an unclosed surname, blanks around the
\* surname, no slash, no value
NameLines ==
    {Line(<<"0", "@I1@", "INDI">>), Line(<<"0", "@F1@", "FAM">>),
     Line(<<"1", "NAME", "Ann /Doe/">>), Line(<<"1", "NAME", "/Doe/">>),
     Line(<<"1", "NAME", "Bob /Doe">>), Line(<<"1", "NAME", "Ann / Doe /">>),
     Line(<<"1", "NAME", "Bob">>), Line(<<"1", "NAME">>)}

\* a pass over such a file
ParseNameLine == \E line \in NameLines : ParseStep(line)

ParseNameNext == ParseNameLine \/ ParseReturn

SpecParseName == ParseInit /\ [][ParseNameNext]_vars

\* the lines of a file of individuals and families with their events
CtxLines ==
    {Line(<<"0", "@I1@", "INDI">>), Line(<<"0", "@I2@", "INDI">>),
     Line(<<"0", "@F1@", "FAM">>),
     Line(<<"1", "BIRT">>), Line(<<"1", "DEAT">>), Line(<<"1", "SEX", "M">>),
     Line(<<"1", "OBJE">>), Line(<<"1", "MARR">>), Line(<<"1", "ENGA">>),
     Line(<<"1", "DIV">>),
     Line(<<"2", "DATE", "1990">>), Line(<<"2", "PLAC", "Rome">>),
     Line(<<"2", "FILE", "a.jpg">>)}

\* a pass over such a file
ParseCtxLine == \E line \in CtxLines : ParseStep(line)

ParseCtxNext == ParseCtxLine \/ ParseReturn

SpecParseCtx == ParseInit /\ [][ParseCtxNext]_vars

\* the lines of the files given to one parser one after the other
AgainLines ==
    {Line(<<"0", "@I1@", "INDI">>), Line(<<"0", "@I2@", "INDI">>),
     Line(<<"1", "BIRT">>), Line(<<"2", "DATE", "1990">>)}

\* a pass over such a file
ParseAgainLine == \E line \in AgainLines : ParseStep(line)

\* parse_file called on a parser whose parse_file has returned: the lines of
\* the new file are read from the start; the tree, the record in progress
\* and the flags are the ones the parser has
ParseAgain ==
    /\ pstate = "returned"
    /\ passes < MaxPasses
    /\ passes' = passes + 1
    /\ pstate' = "parsing"
    /\ consumed' = <<>>
    /\ UNCHANGED <<treeVars, current_type, current_record, current_birth,
                   current_death, current_marriage, current_object,
                   renderVars, group>>

ParseTwiceNext == ParseAgainLine \/ ParseReturn \/ ParseAgain

SpecParseTwice == ParseInit /\ [][ParseTwiceNext]_vars

-----------------------------------------------------------------------------
(* Trees the renderers are run on: every family takes its husband, wife and *)
(* children from the individuals of the tree (or a dangling id, or nobody); *)
(* each individual's FAMS and FAMC lists are the families that name it, in  *)
(* family order, as a consistent file declares them.                        *)

PersonRefs == IndSet \cup {None, DanglingInd}

ChildSeqs ==
    {s \in UNION {[1..n -> IndSet] : n \in 0..MaxChildren} :
        \A i, j \in 1..Len(s) : i # j => s[i] # s[j]}

\* husband and wife of one family are different persons, or both absent
FamilyShapes ==
    {f \in [husband_id : PersonRefs, wife_id : PersonRefs, children_ids : ChildSeqs] :
        f.husband_id = f.wife_id => f.husband_id = None}

MakeFamilies(ids, shape) ==
    [i \in 1..Len(ids) |->
        [Family(ids[i]) EXCEPT !.husband_id = shape[ids[i]].husband_id,
                               !.wife_id = shape[ids[i]].wife_id,
                               !.children_ids = shape[ids[i]].children_ids]]

IdsOf(recs) == [i \in 1..Len(recs) |-> recs[i].id]

MakeIndividuals(fams, birth) ==
    [i \in 1..Len(IndIds) |->
        [Individual(IndIds[i]) EXCEPT
            !.birth_date = birth[IndIds[i]],
            !.family_spouse = IdsOf(SelectSeq(fams,
                LAMBDA f : f.husband_id = IndIds[i] \/ f.wife_id = IndIds[i])),
            !.family_child = IdsOf(SelectSeq(fams,
                LAMBDA f : IndIds[i] \in Range(f.children_ids)))]]

\* the birth dates of the trees the full renders run on
RenderBirth ==
    [id \in IndSet |-> CASE id = "I1" -> "1990" [] id = "I2" -> "0000" [] OTHER -> None]

ParserIdle ==
    /\ pstate = "idle"
    /\ consumed = <<>>
    /\ passes = 0
    /\ current_type = None
    /\ current_record = NoneRec
    /\ current_birth = FALSE
    /\ current_death = FALSE
    /\ current_marriage = FALSE
    /\ current_object = FALSE

\* HtmlRenderer.__init__ / AsciiRenderer.__init__
InstanceNew(kinds) ==
    /\ renderer \in kinds
    /\ phase = "new"
    /\ rendered_individuals = {}
    /\ root_families = <<>>
    /\ root_idx = 1
    /\ output = <<>>
    /\ orphans = <<>>
    /\ depth = 0
    /\ steps = 0
    /\ returned = <<>>

\* one renderer instance on the tree, and no other
RendererNew(kinds) ==
    /\ InstanceNew(kinds)
    /\ second = NoneRec

RenderInit ==
    /\ \E shape \in [FamSet -> FamilyShapes] :
          /\ families = MakeFamilies(FamIds, shape)
          /\ individuals = MakeIndividuals(families, RenderBirth)
    /\ header = NoneRec
    /\ submitter = NoneRec
    /\ ParserIdle
    /\ RendererNew({"html", "ascii"})
    /\ group = NoneRec

\* a list that is never emptied, for comparison
keep_rendered(previous) == previous

\* self.rendered_individuals = set(), the reset that starts every render
reset_rendered(previous) == {}

\* what render returns: the document built from the persons emitted and the
\* unconnected individuals, or the error page with the message of the exception
Document(out, orph) == [kind |-> "document", output |-> out, orphans |-> orph]
ErrorPage(message) == [kind |-> "error", message |-> message]

\* where a render stands: before its first step, at a root family of the
\* loop, or past the last root family
AtBegin == phase = "new"
AtRoot == phase = "roots" /\ root_idx <= Len(root_families)
AtUnconnected == phase = "roots" /\ root_idx > Len(root_families)

\* some step of a render can be taken
RenderEnabled ==
    /\ renderer \in {"html", "ascii"}
    /\ (AtBegin \/ AtRoot \/ AtUnconnected)

\* a set that belongs to the class and so to every instance, for comparison
shared_rendered(own, other) == own \cup other

\* self.rendered_individuals: the set __init__ gave this instance
own_rendered(own, other) == own

Traversal == [rendered |-> own_rendered(rendered_individuals,
                               IF IsNone(second) THEN {} ELSE second.rendered),
              output |-> output, err |-> FALSE, depth |-> depth]

\* HtmlRenderer.render up to the call of _generate_tree_content
H_render_begin ==
    /\ renderer = "html" /\ AtBegin
    /\ rendered_individuals' = reset_rendered(rendered_individuals)
    /\ root_families' = H_find_root_families
    /\ root_idx' = 1
    /\ phase' = "roots"
    /\ steps' = steps + 1
    /\ UNCHANGED <<treeVars, parserVars, renderer, output, orphans, depth, group,
                   second, returned>>

\* one turn of the loop over root_families in _generate_tree_content
H_render_root ==
    /\ renderer = "html" /\ AtRoot
    /\ LET st == H_render_family_tree(root_families[root_idx], Traversal)
       IN /\ rendered_individuals' = st.rendered
          /\ output' = st.output
          /\ depth' = st.depth
          /\ phase' = IF st.err THEN "error" ELSE "roots"
          /\ root_idx' = IF st.err THEN root_idx ELSE root_idx + 1
          /\ returned' = IF st.err THEN Append(returned, ErrorPage("RecursionError"))
                         ELSE returned
    /\ steps' = steps + 1
    /\ UNCHANGED <<treeVars, parserVars, renderer, root_families, orphans, group,
                   second>>

\* the unconnected-individuals list that ends _generate_tree_content
H_render_unconnected ==
    /\ renderer = "html" /\ AtUnconnected
    /\ orphans' = H_find_orphaned_individuals
    /\ returned' = Append(returned, Document(output, orphans'))
    /\ phase' = "done"
    /\ steps' = steps + 1
    /\ UNCHANGED <<treeVars, parserVars, renderer, rendered_individuals,
                   root_families, root_idx, output, depth, group, second>>

\* AsciiRenderer.render up to its loop over the root families
A_render_begin ==
    /\ renderer = "ascii" /\ AtBegin
    /\ rendered_individuals' = reset_rendered(rendered_individuals)
    /\ root_families' = A_find_root_families
    /\ root_idx' = 1
    /\ phase' = "roots"
    /\ steps' = steps + 1
    /\ UNCHANGED <<treeVars, parserVars, renderer, output, orphans, depth, group,
                   second, returned>>

\* one turn of the loop over root_families in render
A_render_root ==
    /\ renderer = "ascii" /\ AtRoot
    /\ LET st == A_render_family_tree(root_families[root_idx], Traversal)
       IN /\ rendered_individuals' = st.rendered
          /\ output' = st.output
    /\ root_idx' = root_idx + 1
    /\ steps' = steps + 1
    /\ UNCHANGED <<treeVars, parserVars, renderer, phase, root_families,
                   orphans, depth, group, second, returned>>

\* the loop over the remaining individuals, and the return
A_render_unconnected ==
    /\ renderer = "ascii" /\ AtUnconnected
    /\ LET st == A_unconnected_loop(individuals, Traversal)
       IN /\ rendered_individuals' = st.rendered
          /\ output' = st.output
          /\ returned' = Append(returned, Document(st.output, orphans))
    /\ phase' = "done"
    /\ steps' = steps + 1
    /\ UNCHANGED <<treeVars, parserVars, renderer, root_families, root_idx,
                   orphans, depth, group, second>>

RenderNext ==
    \/ H_render_begin
    \/ H_render_root
    \/ H_render_unconnected
    \/ A_render_begin
    \/ A_render_root
    \/ A_render_unconnected

SpecRender == RenderInit /\ [][RenderNext]_vars

-----------------------------------------------------------------------------
(* Two renderer instances on the same tree, each with its own fields, whose *)
(* renders run at the same time: a step of one may come between any two     *)
(* steps of the other.  The first instance is the one of the renders above, *)
(* the second is the record second.                                         *)

firstVars == <<renderer, phase, rendered_individuals, root_families, root_idx,
               output, orphans, depth, steps, returned>>

\* HtmlRenderer(tree) / AsciiRenderer(tree), as a record
NewRenderer(kind) ==
    [kind |-> kind, phase |-> "new", rendered |-> {}, root_families |-> <<>>,
     root_idx |-> 1, output |-> <<>>, orphans |-> <<>>, depth |-> 0]

SecondTraversal == [rendered |-> own_rendered(second.rendered, rendered_individuals),
                    output |-> second.output, err |-> FALSE, depth |-> second.depth]

\* render of the second instance up to its loop over the root families
Second_render_begin ==
    /\ ~IsNone(second) /\ second.phase = "new"
    /\ second' = [second EXCEPT
                    !.rendered = reset_rendered(@),
                    !.root_families = IF second.kind = "html"
                                      THEN H_find_root_families
                                      ELSE A_find_root_families,
                    !.root_idx = 1,
                    !.phase = "roots"]
    /\ UNCHANGED <<treeVars, parserVars, firstVars, group>>

\* one turn of the loop over the root families, in the second instance
Second_render_root ==
    /\ ~IsNone(second) /\ second.phase = "roots"
    /\ second.root_idx <= Len(second.root_families)
    /\ LET family == second.root_families[second.root_idx]
           st == IF second.kind = "html"
                 THEN H_render_family_tree(family, SecondTraversal)
                 ELSE A_render_family_tree(family, SecondTraversal)
       IN second' = [second EXCEPT
                       !.rendered = st.rendered,
                       !.output = st.output,
                       !.depth = st.depth,
                       !.phase = IF st.err THEN "error" ELSE "roots",
                       !.root_idx = IF st.err THEN @ ELSE @ + 1]
    /\ UNCHANGED <<treeVars, parserVars, firstVars, group>>

\* the unconnected individuals, and the return, in the second instance
Second_render_unconnected ==
    /\ ~IsNone(second) /\ second.phase = "roots"
    /\ second.root_idx > Len(second.root_families)
    /\ IF second.kind = "html"
       THEN second' = [second EXCEPT !.orphans = H_find_orphaned_individuals,
                                     !.phase = "done"]
       ELSE LET st == A_unconnected_loop(individuals, SecondTraversal)
            IN second' = [second EXCEPT !.rendered = st.rendered,
                                        !.output = st.output,
                                        !.phase = "done"]
    /\ UNCHANGED <<treeVars, parserVars, firstVars, group>>

\* the pairs of renderer classes of the two instances
TwoKinds == {<<"html", "html">>, <<"ascii", "ascii">>, <<"html", "ascii">>}

\* trees of two families without dangling children; the second family has at
\* most a husband
SmallTree ==
    \E shape1 \in [husband_id : {None, "I1"}, wife_id : {None, "I2"},
                    children_ids : ChildSeqs],
       shape2 \in [husband_id : {None, "I3"}, wife_id : {None},
                    children_ids : ChildSeqs] :
        /\ families = MakeFamilies(FamIds, [f \in FamSet |->
                          IF f = FamIds[1] THEN shape1 ELSE shape2])
        /\ individuals = MakeIndividuals(families, RenderBirth)

TwoInit ==
    /\ SmallTree
    /\ header = NoneRec
    /\ submitter = NoneRec
    /\ ParserIdle
    /\ \E kinds \in TwoKinds :
          /\ InstanceNew({kinds[1]})
          /\ second = NewRenderer(kinds[2])
    /\ group = NoneRec

TwoNext ==
    \/ RenderNext
    \/ Second_render_begin
    \/ Second_render_root
    \/ Second_render_unconnected

SpecTwo == TwoInit /\ [][TwoNext]_vars

-----------------------------------------------------------------------------
(* One renderer instance whose render is called again after it returned *)

AgainInit ==
    /\ SmallTree
    /\ header = NoneRec
    /\ submitter = NoneRec
    /\ ParserIdle
    /\ RendererNew({"html", "ascii"})
    /\ group = NoneRec

\* renderer.render() once more on the same instance: the locals of the call
\* are new, the attributes of the instance are as the last call left them
RenderAgain ==
    /\ renderer \in {"html", "ascii"} /\ phase = "done"
    /\ Len(returned) < MaxCalls
    /\ phase' = "new"
    /\ root_families' = <<>>
    /\ root_idx' = 1
    /\ output' = <<>>
    /\ orphans' = <<>>
    /\ UNCHANGED <<treeVars, parserVars, renderer, rendered_individuals, depth,
                   steps, group, second, returned>>

AgainNext == RenderNext \/ RenderAgain

SpecAgain == AgainInit /\ [][AgainNext]_vars

-----------------------------------------------------------------------------
(* HtmlRenderer.render on a tree object whose accessors may raise, as the   *)
(* mock tree of test_error_handling_in_render does.  An exception is a     *)
(* record of its class and its message.                                    *)

\* the classes derived from Exception that a step of the render may raise
ExceptionClasses ==
    {"Exception", "ValueError", "TypeError", "AttributeError", "KeyError",
     "RecursionError"}

StepRaises == [class : ExceptionClasses, message : {"Test error", ""}]

\* except (AttributeError, KeyError), the handler inside _find_root_families
lookup_catches(e) == e.class \in {"AttributeError", "KeyError"}

\* a handler as narrow as the one of the loop, for comparison
render_catches_lookup_errors(e) == e.class \in {"AttributeError", "KeyError"}

\* except Exception, the handler of render
render_catches(e) == e.class \in ExceptionClasses

\* an exception reaches the try block of render: the error page is returned
\* if the handler catches it, else the exception leaves render
H_render_except(e) ==
    /\ phase' = IF render_catches(e) THEN "error" ELSE "raised"
    /\ returned' = IF render_catches(e) THEN Append(returned, ErrorPage(e.message))
                   ELSE returned

\* _find_root_families raises e: at self.tree.families.values(), outside the
\* handler of the loop, or at a lookup for the i-th family, inside it, where
\* a caught exception only leaves that family out of the root families
H_render_begin_raises(e) ==
    /\ renderer = "html" /\ AtBegin
    /\ rendered_individuals' = reset_rendered(rendered_individuals)
    /\ \E site \in {0} \cup (1..Len(families)) :
          IF site > 0 /\ lookup_catches(e)
          THEN /\ root_families' = SelectSeq(families,
                      LAMBDA f : f.id # families[site].id /\ H_is_root(f))
               /\ phase' = "roots"
               /\ UNCHANGED returned
          ELSE /\ H_render_except(e)
               /\ UNCHANGED root_families
    /\ root_idx' = 1
    /\ steps' = steps + 1
    /\ UNCHANGED <<treeVars, parserVars, renderer, output, orphans, depth, group,
                   second>>

\* _render_family_tree of a root family raises e before any person is emitted
H_render_root_raises(e) ==
    /\ renderer = "html" /\ AtRoot
    /\ H_render_except(e)
    /\ steps' = steps + 1
    /\ UNCHANGED <<treeVars, parserVars, renderer, rendered_individuals,
                   root_families, root_idx, output, orphans, depth, group, second>>

\* _find_orphaned_individuals raises e at self.tree.families.values()
H_render_unconnected_raises(e) ==
    /\ renderer = "html" /\ AtUnconnected
    /\ H_render_except(e)
    /\ steps' = steps + 1
    /\ UNCHANGED <<treeVars, parserVars, renderer, rendered_individuals,
                   root_families, root_idx, output, orphans, depth, group, second>>

H_render_raises(e) ==
    \/ H_render_begin_raises(e)
    \/ H_render_root_raises(e)
    \/ H_render_unconnected_raises(e)

FaultsNext ==
    \/ RenderNext
    \/ \E e \in StepRaises : H_render_raises(e)

SpecFaults == AgainInit /\ [][FaultsNext]_vars

-----------------------------------------------------------------------------
(* One family with every choice of birth dates: the tree on which           *)
(* get_family_group, HtmlRenderer._render_children and                      *)
(* AsciiRenderer._render_family_tree are called directly, as the tests of   *)
(* the repository call them.                                                *)

BirthDates == {None, "0000", "1990", "2 FEB 2000"}

\* a family id no family of the tree has
DanglingFam == "F9"

UnitInit ==
    /\ \E shape \in FamilyShapes, birth \in [IndSet -> BirthDates] :
          /\ families = MakeFamilies(<<FamIds[1]>>, [f \in {FamIds[1]} |-> shape])
          /\ individuals = MakeIndividuals(families, birth)
    /\ header = NoneRec
    /\ submitter = NoneRec
    /\ ParserIdle
    /\ RendererNew({"html", "ascii", "none"})
    /\ group = NoneRec

\* tree.get_family_group(family_id), by a caller that renders nothing
GetFamilyGroup ==
    /\ renderer = "none"
    /\ \E family_id \in Keys(families) \cup {DanglingFam} :
          group' = get_family_group(family_id)
    /\ families' = AliasedFamilies(families, <<group'>>)
    /\ UNCHANGED <<individuals, header, submitter, parserVars, renderVars>>

\* renderer._render_children(family) on a new HtmlRenderer
H_call_render_children ==
    /\ renderer = "html" /\ phase = "new"
    /\ \E i \in 1..Len(families) :
          LET st == H_render_children(families[i], Traversal, 1)
          IN /\ rendered_individuals' = st.rendered
             /\ output' = st.output
             /\ depth' = st.depth
             /\ phase' = IF st.err THEN "error" ELSE "called"
    /\ steps' = steps + 1
    /\ UNCHANGED <<treeVars, parserVars, renderer, root_families, root_idx,
                   orphans, group, second, returned>>

\* renderer._render_family_tree(family, "", True) on a new AsciiRenderer
A_call_render_family_tree ==
    /\ renderer = "ascii" /\ phase = "new"
    /\ \E i \in 1..Len(families) :
          LET st == A_render_family_tree(families[i], Traversal)
          IN /\ rendered_individuals' = st.rendered
             /\ output' = st.output
    /\ phase' = "called"
    /\ steps' = steps + 1
    /\ UNCHANGED <<treeVars, parserVars, renderer, root_families, root_idx,
                   orphans, depth, group, second, returned>>

UnitNext ==
    \/ GetFamilyGroup
    \/ H_call_render_children
    \/ A_call_render_family_tree

SpecFamilyUnit == UnitInit /\ [][UnitNext]_vars

-----------------------------------------------------------------------------
(* Lookups on a tree of one family, by a caller that renders nothing *)

LookupInit ==
    /\ \E shape \in FamilyShapes :
          /\ families = MakeFamilies(<<FamIds[1]>>, [f \in {FamIds[1]} |-> shape])
          /\ individuals = MakeIndividuals(families, RenderBirth)
    /\ header = NoneRec
    /\ submitter = NoneRec
    /\ ParserIdle
    /\ RendererNew({"none"})
    /\ group = NoneRec

\* tree.get_individual(id), for an id of the tree, a dangling id or None
GetIndividual ==
    /\ \E id \in PersonRefs :
          group' = [lookup |-> "individual", id |-> id, result |-> get_individual(id)]
    /\ UNCHANGED <<treeVars, parserVars, renderVars>>

\* tree.get_family(id), for an id of the tree, a dangling id or None
GetFamily ==
    /\ \E id \in FamSet \cup {DanglingFam, None} :
          group' = [lookup |-> "family", id |-> id, result |-> get_family(id)]
    /\ UNCHANGED <<treeVars, parserVars, renderVars>>

LookupNext == GetIndividual \/ GetFamily

SpecLookup == LookupInit /\ [][LookupNext]_vars

-----------------------------------------------------------------------------
(* Birth years of individuals whose birth date is free text *)

\* the birth date texts: none, plain years, a year inside a date, a year
\* after a word with and without a space, five digits, no digits
YearDates ==
    {None, "0000", "1990", "2 FEB 2000", "ABT 1990", "ABT1990", "19901", "JAN"}

BirthYearInit ==
    /\ families = <<>>
    /\ \E birth \in [IndSet -> YearDates] :
          individuals = MakeIndividuals(families, birth)
    /\ header = NoneRec
    /\ submitter = NoneRec
    /\ ParserIdle
    /\ RendererNew({"none"})
    /\ group = NoneRec

\* individual.get_birth_year(), by a caller that renders nothing
GetBirthYear ==
    /\ \E i \in 1..Len(individuals) :
          group' = [individual |-> individuals[i].id,
                    year |-> get_birth_year(individuals[i])]
    /\ UNCHANGED <<treeVars, parserVars, renderVars>>

SpecBirthYear == BirthYearInit /\ [][GetBirthYear]_vars

-----------------------------------------------------------------------------
(* Two families whose children may be dangling ids: the tree on which       *)
(* get_all_family_groups is called, more than once, by a caller that        *)
(* renders nothing.                                                         *)

\* children_ids lists that may name an individual the tree does not have
ChildRefSeqs ==
    {s \in UNION {[1..n -> IndSet \cup {DanglingInd}] : n \in 0..MaxChildren} :
        \A i, j \in 1..Len(s) : i # j => s[i] # s[j]}

\* families whose husband and wife are drawn from the given ids
GroupShapes(husbands, wives) ==
    {f \in [husband_id : husbands, wife_id : wives, children_ids : ChildRefSeqs] :
        f.husband_id = f.wife_id => f.husband_id = None}

\* the first family has any of a set, an unset and a dangling husband and
\* wife; the second has at most a husband
GroupsInit ==
    /\ \E shape1 \in GroupShapes({None, "I1", DanglingInd}, {None, "I2", DanglingInd}),
          shape2 \in GroupShapes({None, "I3"}, {None}) :
          /\ families = MakeFamilies(FamIds, [f \in FamSet |->
                            IF f = FamIds[1] THEN shape1 ELSE shape2])
          /\ individuals = MakeIndividuals(families, RenderBirth)
    /\ header = NoneRec
    /\ submitter = NoneRec
    /\ ParserIdle
    /\ RendererNew({"none"})
    /\ group = NoneRec

\* the calls of get_all_family_groups made so far, and what the last returned
GroupCalls == IF "calls" \in DOMAIN group THEN group.calls ELSE 0
LastGroups == IF "calls" \in DOMAIN group THEN group.last ELSE <<>>

\* tree.get_all_family_groups(), by a caller that renders nothing
GetAllFamilyGroups ==
    /\ renderer = "none"
    /\ GroupCalls < MaxCalls
    /\ LET result == get_all_family_groups(LastGroups)
       IN /\ group' = [calls |-> GroupCalls + 1,
                       first |-> IF GroupCalls = 0 THEN result ELSE group.first,
                       last |-> result]
          /\ families' = AliasedFamilies(families, result)
    /\ UNCHANGED <<individuals, header, submitter, parserVars, renderVars>>

SpecGroups == GroupsInit /\ [][GetAllFamilyGroups]_vars

-----------------------------------------------------------------------------
(* One family and individuals with and without a given name: the trees on   *)
(* which the order of the unconnected individuals shows.                    *)

GivenNames == {None, "Ann", "Bob"}

MakeNamed(fams, birth, given) ==
    LET inds == MakeIndividuals(fams, birth)
    IN [i \in 1..Len(inds) |-> [inds[i] EXCEPT !.given_name = given[inds[i].id]]]

NamesInit ==
    /\ \E shape \in GroupShapes({None, "I1"}, {None}), given \in [IndSet -> GivenNames] :
          /\ families = MakeFamilies(<<FamIds[1]>>, [f \in {FamIds[1]} |-> shape])
          /\ individuals = MakeNamed(families, RenderBirth, given)
    /\ header = NoneRec
    /\ submitter = NoneRec
    /\ ParserIdle
    /\ RendererNew({"html", "ascii"})
    /\ group = NoneRec

SpecNames == NamesInit /\ [][RenderNext]_vars

-----------------------------------------------------------------------------
(* Trees with dangling pointers of every kind: a husband, a wife or a child *)
(* that is no individual of the tree, and FAMS and FAMC entries that are no *)
(* family of the tree.                                                      *)

\* FAMS and FAMC lists with an entry for a family the file never declares
WithDanglingLinks(inds) ==
    [i \in 1..Len(inds) |->
        CASE inds[i].id = "I1" ->
                [inds[i] EXCEPT !.family_spouse = <<DanglingFam>> \o @]
          [] inds[i].id = "I2" ->
                [inds[i] EXCEPT !.family_child = Append(@, DanglingFam)]
          [] OTHER ->
                [inds[i] EXCEPT !.family_spouse = Append(@, DanglingFam)]]

DanglingInit ==
    /\ \E shape1 \in GroupShapes({None, "I1", DanglingInd}, {None, "I2", DanglingInd}),
          shape2 \in GroupShapes({None, "I3"}, {None}),
          links \in BOOLEAN :
          /\ families = MakeFamilies(FamIds, [f \in FamSet |->
                            IF f = FamIds[1] THEN shape1 ELSE shape2])
          /\ individuals = IF links
                           THEN WithDanglingLinks(MakeIndividuals(families, RenderBirth))
                           ELSE MakeIndividuals(families, RenderBirth)
    /\ header = NoneRec
    /\ submitter = NoneRec
    /\ ParserIdle
    /\ RendererNew({"html", "ascii"})
    /\ group = NoneRec

SpecDangling == DanglingInit /\ [][RenderNext]_vars

-----------------------------------------------------------------------------
(* Four generations: the k-th family has the k-th individual as a parent    *)
(* and the next individual as a child, so that the last individual can be   *)
(* a great-grandchild of the first family.                                  *)

DeepIndIds == <<"I1", "I2", "I3", "I4">>
DeepFamIds == <<"F1", "F2", "F3">>

\* the individuals of a file that declares these families consistently
MakeIndividualsOf(ids, fams) ==
    [i \in 1..Len(ids) |->
        [Individual(ids[i]) EXCEPT
            !.family_spouse = IdsOf(SelectSeq(fams,
                LAMBDA f : f.husband_id = ids[i] \/ f.wife_id = ids[i])),
            !.family_child = IdsOf(SelectSeq(fams,
                LAMBDA f : ids[i] \in Range(f.children_ids)))]]

\* the k-th family: its parent is husband, wife or missing; it has no child,
\* the next individual, or the next individual and a dangling child
DeepFamily(k, parent, children) ==
    [Family(DeepFamIds[k]) EXCEPT
        !.husband_id = IF parent = "husband" THEN DeepIndIds[k] ELSE None,
        !.wife_id = IF parent = "wife" THEN DeepIndIds[k] ELSE None,
        !.children_ids = CASE children = 0 -> <<>>
                           [] children = 1 -> <<DeepIndIds[k + 1]>>
                           [] OTHER -> <<DeepIndIds[k + 1], DanglingInd>>]

DeepInit ==
    /\ \E parent \in [1..Len(DeepFamIds) -> {"husband", "wife", "none"}],
          children \in [1..Len(DeepFamIds) -> 0..2] :
          /\ families = [k \in 1..Len(DeepFamIds) |->
                            DeepFamily(k, parent[k], children[k])]
          /\ individuals = MakeIndividualsOf(DeepIndIds, families)
    /\ header = NoneRec
    /\ submitter = NoneRec
    /\ ParserIdle
    /\ RendererNew({"html", "ascii"})
    /\ group = NoneRec

SpecDeep == DeepInit /\ [][RenderNext]_vars

-----------------------------------------------------------------------------
(* Every reader of a parsed tree: the queries of FamilyTree, the two        *)
(* renderers and FamilyFormatter.                                           *)

\* FamilyFormatter._find_orphaned_individuals
\* the ids of the husbands and wives of the groups only, for comparison
F_referenced_parent_ids(groups) ==
    UNION {(IF ~IsNone(groups[i].husband) THEN {groups[i].husband.id} ELSE {})
           \cup (IF ~IsNone(groups[i].wife) THEN {groups[i].wife.id} ELSE {})
           : i \in 1..Len(groups)}

F_referenced_ids(groups) ==
    UNION {(IF ~IsNone(groups[i].husband) THEN {groups[i].husband.id} ELSE {})
           \cup (IF ~IsNone(groups[i].wife) THEN {groups[i].wife.id} ELSE {})
           \cup {groups[i].children[k].id : k \in 1..Len(groups[i].children)}
           : i \in 1..Len(groups)}

F_find_orphaned_individuals(groups) ==
    SortByName(SelectSeq(individuals,
                         LAMBDA individual : individual.id \notin F_referenced_ids(groups)))

\* tree.get_roots()
GetRoots ==
    /\ renderer = "none"
    /\ group' = [roots |-> get_roots]
    /\ UNCHANGED <<treeVars, parserVars, renderVars>>

\* FamilyFormatter(tree).format_grouped_families()
FormatGroupedFamilies ==
    /\ renderer = "none"
    /\ LET family_groups == get_all_family_groups(<<>>)
       IN /\ group' = [formatted |-> family_groups,
                       orphans |-> F_find_orphaned_individuals(family_groups)]
          /\ families' = AliasedFamilies(families, family_groups)
    /\ UNCHANGED <<individuals, header, submitter, parserVars, renderVars>>

\* a tree of one family and three individuals with and without given names,
\* handed to a FamilyFormatter
FormatInit ==
    /\ \E shape \in GroupShapes({None, "I1", DanglingInd}, {None, "I2"}),
          given \in [IndSet -> GivenNames] :
          /\ families = MakeFamilies(<<FamIds[1]>>, [f \in {FamIds[1]} |-> shape])
          /\ individuals = MakeNamed(families, RenderBirth, given)
    /\ header = NoneRec
    /\ submitter = NoneRec
    /\ ParserIdle
    /\ RendererNew({"none"})
    /\ group = NoneRec

FormatNext == FormatGroupedFamilies

SpecFormat == FormatInit /\ [][FormatNext]_vars

FrozenInit ==
    /\ SmallTree
    /\ header = NoneRec
    /\ submitter = NoneRec
    /\ ParserIdle
    /\ RendererNew({"html", "ascii", "none"})
    /\ group = NoneRec

FrozenNext ==
    \/ (renderer = "none" /\ (GetIndividual \/ GetFamily))
    \/ GetRoots
    \/ GetFamilyGroup
    \/ GetAllFamilyGroups
    \/ FormatGroupedFamilies
    \/ RenderNext

SpecFrozen == FrozenInit /\ [][FrozenNext]_vars

-----------------------------------------------------------------------------
(* Properties *)

\* the birth year the spec sorts by: no parsable year counts as 9999
BirthYearKey(ind) ==
    LET y == get_birth_year(ind)
    IN IF y = NoYear THEN 9999 ELSE y

EmittedIds == {output[i].id : i \in 1..Len(output)}

\* the pointers of the well-formed level-0 lines with this tag taken so far
Declared(tag) ==
    {consumed[i].parts[2] : i \in {k \in 1..Len(consumed) :
        /\ ~consumed[k].blank
        /\ Len(consumed[k].parts) = 3
        /\ consumed[k].parts[1] = "0"
        /\ consumed[k].parts[3] = tag}}

\* C1: a line whose level token is no integer is skipped and the pass goes
\* on: parse_file never ends in the error, and when it returns every INDI and
\* FAM record declared by a well-formed line, before or after the bad line,
\* is in the tree.
C1_MalformedLineSkipped ==
    /\ pstate # "raised"
    /\ pstate = "returned" =>
          /\ Declared("INDI") \subseteq Keys(individuals)
          /\ Declared("FAM") \subseteq Keys(families)

\* C2: in one HtmlRenderer.render no individual is given a person card in
\* the tree section twice.
C2_HtmlEmitsAtMostOnce ==
    renderer = "html" =>
        \A i, j \in 1..Len(output) : i < j => output[i].id # output[j].id

\* C3: in AsciiRenderer.render an individual already emitted as a parent or
\* child of a family is not emitted again as the spouse or a child of a
\* descendant family.
C3_AsciiNoDoubleRendering ==
    renderer = "ascii" =>
        \A i, j \in 1..Len(output) :
            (/\ i < j
             /\ output[i].role \in {"husband", "wife", "child"}
             /\ output[j].role \in {"spouse", "descendant_child"})
            => output[i].id # output[j].id

\* C4: after HtmlRenderer.render every individual is either in the rendered
\* set or in the unconnected list, and never in both.
C4_HtmlRenderedOrUnconnected ==
    (renderer = "html" /\ phase = "done") =>
        \A id \in Keys(individuals) :
            (id \in rendered_individuals) # (id \in Keys(orphans))

\* C5: when AsciiRenderer.render returns, every individual of the tree has
\* been emitted and rendered_individuals is exactly the set of their ids.
C5_AsciiRendersEveryIndividual ==
    (renderer = "ascii" /\ phase = "done") =>
        /\ rendered_individuals = Keys(individuals)
        /\ Keys(individuals) \subseteq EmittedIds

\* C5: a render that returned after emitting a person beneath a root family
\* and another one in the closing loop over the remaining individuals
C5_Witness ==
    /\ renderer = "ascii" /\ phase = "done"
    /\ \E i, j \in 1..Len(output) :
          /\ output[i].role = "spouse"
          /\ output[j].role = "unconnected"

\* some parent of the family is one of its own children
SelfReferential(family) ==
    \E id \in Range(family.children_ids) :
        id = family.husband_id \/ id = family.wife_id

\* steps a render still has to take: the call itself, one per root family
\* left, and the closing pass
RenderSteps ==
    CASE phase = "new" -> Len(families) + 2
      [] phase = "roots" -> Len(root_families) - root_idx + 2
      [] OTHER -> 0

HasParentWithoutParents(family) ==
    \E k \in 1..Len(individuals) :
        /\ individuals[k].id \in ({family.husband_id, family.wife_id} \ {None})
        /\ individuals[k].family_child = <<>>

IndexOfFamily(id) == CHOOSE i \in 1..Len(families) : families[i].id = id

\* C7: _find_root_families returns exactly the families one of whose present
\* parents has an empty family_child, in family order.
C7_RootFamilies ==
    phase # "new" =>
        /\ \A i \in 1..Len(families) :
              (families[i] \in Range(root_families))
                  <=> HasParentWithoutParents(families[i])
        /\ \A a, b \in 1..Len(root_families) :
              a < b => IndexOfFamily(root_families[a].id)
                           < IndexOfFamily(root_families[b].id)

\* C7: one family is a root while another, whose parents are all present
\* and all have parents, is not
C7_Witness ==
    /\ phase = "roots"
    /\ Len(root_families) = 1
    /\ \E i \in 1..Len(families) :
          /\ families[i] \notin Range(root_families)
          /\ families[i].husband_id \in Keys(individuals)
          /\ families[i].wife_id \in Keys(individuals)

\* C8: the children of a family group are in ascending birth-year order,
\* whatever the years are, those without a parsable year last (as 9999).
C8_GroupChildrenByBirthYear ==
    "children" \in DOMAIN group =>
        \A i, j \in 1..Len(group.children) :
            i < j => BirthYearKey(group.children[i]) <= BirthYearKey(group.children[j])

IndividualOf(id) == individuals[CHOOSE k \in 1..Len(individuals) : individuals[k].id = id]

\* the persons one family's child loop emitted are in ascending birth-year order
ChildrenEmittedByBirthYear ==
    \A i, j \in 1..Len(output) :
        (/\ i < j
         /\ output[i].role = "child" /\ output[j].role = "child"
         /\ output[i].fam = output[j].fam)
        => BirthYearKey(IndividualOf(output[i].id))
               <= BirthYearKey(IndividualOf(output[j].id))

\* C9: HtmlRenderer._render_children emits the children of a family in
\* ascending birth-year order, undated children last.
C9_HtmlChildrenByBirthYear == renderer = "html" => ChildrenEmittedByBirthYear

\* C10: the family-unit render of AsciiRenderer emits the children of a
\* family in ascending birth-year order, undated children last.
C10_AsciiChildrenByBirthYear == renderer = "ascii" => ChildrenEmittedByBirthYear

\* every line taken so far has an integer level
AllLevelsInteger ==
    \A k \in 1..Len(consumed) :
        consumed[k].blank \/ parse_line(consumed[k].parts).ok

\* the id is a key of the dictionary exactly once
KeyOnce(dict, id) == Cardinality({i \in 1..Len(dict) : dict[i].id = id}) = 1

\* C11: after parse_file returns on lines that all have an integer level,
\* get_individual of every pointer an INDI line declared returns an
\* individual with that id, get_family likewise for every FAM line, and each
\* declared id is a key exactly once.
C11_DeclaredIdsRoundTrip ==
    (pstate = "returned" /\ AllLevelsInteger) =>
        /\ \A X \in Declared("INDI") :
              /\ ~IsNone(get_individual(X))
              /\ get_individual(X).id = X
              /\ KeyOnce(individuals, X)
        /\ \A Y \in Declared("FAM") :
              /\ ~IsNone(get_family(Y))
              /\ get_family(Y).id = Y
              /\ KeyOnce(families, Y)

\* C11: a returned pass in which one pointer was declared by two INDI lines
\* and is referenced by a family
C11_Witness ==
    /\ pstate = "returned" /\ AllLevelsInteger
    /\ \E a, b \in 1..Len(consumed) :
          /\ a < b
          /\ consumed[a] = Line(<<"0", "@I1@", "INDI">>)
          /\ consumed[b] = consumed[a]
    /\ \E i \in 1..Len(families) : families[i].husband_id = "@I1@"

\* the step takes a line of level 0, or is the return of parse_file
AtBoundary ==
    \/ pstate' = "returned"
    \/ /\ pstate' = "parsing"
       /\ Len(consumed') = Len(consumed) + 1
       /\ LET l == consumed'[Len(consumed')]
          IN /\ ~l.blank
             /\ parse_line(l.parts).ok
             /\ parse_line(l.parts).level = 0

\* C12: a level-0 line, and the end of input, put the Individual or Family
\* in progress into the tree under its id with the fields it has; when
\* parse_file returns every declared INDI and FAM record is in the tree.
C12_CommitOnBoundary ==
    [][/\ (pstate = "parsing" /\ current_type = "INDI" /\ AtBoundary)
            => DictGet(individuals', current_record.id) = current_record
       /\ (pstate = "parsing" /\ current_type = "FAM" /\ AtBoundary)
            => DictGet(families', current_record.id) = current_record
       /\ pstate' = "returned"
            => /\ Declared("INDI") \subseteq Keys(individuals')
               /\ Declared("FAM") \subseteq Keys(families')]_vars

\* C12: a returned pass that committed a named individual at the next
\* level-0 line and another one, still in progress, at the end of input
C12_Witness ==
    /\ pstate = "returned"
    /\ Keys(individuals) = {"@I1@", "@I2@"}
    /\ \E i \in 1..Len(individuals) : individuals[i].given_name = "Ann"
    /\ Len(consumed) > 0
    /\ consumed[Len(consumed)] = Line(<<"1", "BIRT">>)

\* the level-0 lines among these lines
Level0Lines(lines) ==
    {k \in 1..Len(lines) :
        /\ ~lines[k].blank
        /\ parse_line(lines[k].parts).ok
        /\ parse_line(lines[k].parts).level = 0}

\* line k of these lines is a level-0 line
IsLevel0(lines, k) ==
    /\ ~lines[k].blank
    /\ parse_line(lines[k].parts).ok
    /\ parse_line(lines[k].parts).level = 0

RECURSIVE Level0TagBefore(_, _)
\* the tag of the most recent level-0 line among the first k lines, "" when
\* there is none
Level0TagBefore(lines, k) ==
    IF k = 0 THEN ""
    ELSE IF IsLevel0(lines, k) THEN parse_line(lines[k].parts).tag
    ELSE Level0TagBefore(lines, k - 1)

\* the tag of the most recent level-0 line, "" when there is none
LastLevel0Tag(lines) == Level0TagBefore(lines, Len(lines))

\* the tag of some line taken so far
SeenLevel0(tag) ==
    \E k \in Level0Lines(consumed) : parse_line(consumed[k].parts).tag = tag

\* C13: after a pass over a file with a level-0 HEAD record the header of
\* the tree is set, and after a SUBM record the submitter is set.
C13_HeaderAndSubmitterSet ==
    pstate = "returned" =>
        /\ SeenLevel0("HEAD") => ~IsNone(header)
        /\ SeenLevel0("SUBM") => ~IsNone(submitter)

\* the tree of the parser
TreeState == <<individuals, families, header, submitter>>

\* the step takes a line of this level
TakesLevel(n) ==
    /\ Len(consumed') = Len(consumed) + 1
    /\ LET l == consumed'[Len(consumed')]
       IN /\ ~l.blank
          /\ parse_line(l.parts).ok
          /\ parse_line(l.parts).level = n

\* the most recent level-0 line is TRLR or a tag that starts no record
Discarding(lines) == LastLevel0Tag(lines) \in {"TRLR", "NOTE"}

\* C17: after a level-0 TRLR or unrecognized tag no record is in progress;
\* the level-1 and level-2 lines that follow change neither the tree nor
\* any record, and the next level-0 line and the end of input commit
\* nothing.
C17_DiscardAfterTrailer ==
    [][/\ Discarding(consumed) =>
            /\ current_type = None /\ IsNone(current_record)
            /\ TreeState' = TreeState
            /\ (TakesLevel(1) \/ TakesLevel(2)) =>
                    (current_type' = None /\ IsNone(current_record'))
       /\ Discarding(consumed') =>
            (current_type' = None /\ IsNone(current_record'))]_vars

\* C17: a returned pass that took a NAME line and a DATE line after the
\* trailer that followed an individual
C17_Witness ==
    /\ pstate = "returned"
    /\ consumed = <<Line(<<"0", "@I1@", "INDI">>), Line(<<"0", "TRLR">>),
                    Line(<<"1", "NAME", "Ann /Doe/">>),
                    Line(<<"2", "DATE", "1990">>)>>
    /\ Keys(individuals) = {"@I1@"}

\* the tags the parser acts on at level 1 and at level 2
KnownLevel1 ==
    {"NAME", "SEX", "BIRT", "DEAT", "FAMS", "FAMC", "OBJE",
     "HUSB", "WIFE", "CHIL", "MARR", "ENGA", "DIV"}
KnownLevel2 == {"DATE", "PLAC", "FILE", "GIVN", "SURN"}

\* the step takes a line with an unknown level-1 or level-2 tag, or a line
\* of level 3
TakesUnknown ==
    /\ Len(consumed') = Len(consumed) + 1
    /\ LET l == consumed'[Len(consumed')]
           t == parse_line(l.parts)
       IN /\ ~l.blank /\ t.ok
          /\ \/ t.level = 1 /\ t.tag \notin KnownLevel1
             \/ t.level = 2 /\ t.tag \notin KnownLevel2
             \/ t.level >= 3

\* C18: a line with an unknown tag at level 1 or 2, and a line of level 3
\* or deeper, changes no field of the record in progress and not which
\* record is in progress, commits nothing and raises no error.
C18_UnknownTagsIgnored ==
    [][TakesUnknown =>
          /\ current_record' = current_record
          /\ current_type' = current_type
          /\ TreeState' = TreeState
          /\ pstate' = "parsing"]_vars

\* C18: a returned pass that took a level-3 DATE and an unknown level-2 tag
\* inside the birth event of an individual
C18_Witness ==
    /\ pstate = "returned"
    /\ consumed = <<Line(<<"0", "@I1@", "INDI">>), Line(<<"1", "BIRT">>),
                    Line(<<"3", "DATE", "1800">>), Line(<<"2", "TYPE", "x">>)>>
    /\ Len(individuals) = 1
    /\ individuals[1].birth_date = None

\* the level-1 lines of the record the most recent level-0 line started
Level1OfRecord(lines) ==
    {k \in 1..Len(lines) :
        /\ \A z \in Level0Lines(lines) : z < k
        /\ ~lines[k].blank
        /\ parse_line(lines[k].parts).ok
        /\ parse_line(lines[k].parts).level = 1}

\* the most recent level-1 tag of the current record, "" when it has none
LastLevel1Tag(lines) ==
    IF Level1OfRecord(lines) = {} THEN ""
    ELSE LET k == CHOOSE a \in Level1OfRecord(lines) :
                      \A b \in Level1OfRecord(lines) : b <= a
         IN parse_line(lines[k].parts).tag

\* the line the step takes, once parsed
TakenLine == parse_line(consumed'[Len(consumed')].parts)

\* the step takes a level-2 line with this tag
TakesLevel2(tag) == TakesLevel(2) /\ TakenLine.tag = tag

\* the sub-context the lines taken so far leave open: the kind of the
\* current record and its most recent level-1 tag
OpenContext == <<LastLevel0Tag(consumed), LastLevel1Tag(consumed)>>

\* C14: a level-2 DATE or PLAC writes the birth fields only under the BIRT
\* of the current individual, the death fields only under its DEAT, the
\* marriage fields only under the MARR of the current family, and nothing
\* else; with no such sub-context open it changes none of these fields.
C14_DateRoutedByOpenContext ==
    [][\A tag \in {"DATE", "PLAC"} :
          TakesLevel2(tag) =>
             LET v == TakenLine.value
                 date == tag = "DATE"
             IN CASE OpenContext = <<"INDI", "BIRT">> ->
                       current_record' =
                          IF date THEN [current_record EXCEPT !.birth_date = v]
                          ELSE [current_record EXCEPT !.birth_place = v]
                  [] OpenContext = <<"INDI", "DEAT">> ->
                       current_record' =
                          IF date THEN [current_record EXCEPT !.death_date = v]
                          ELSE [current_record EXCEPT !.death_place = v]
                  [] OpenContext = <<"FAM", "MARR">> ->
                       current_record' =
                          IF date THEN [current_record EXCEPT !.marriage_date = v]
                          ELSE [current_record EXCEPT !.marriage_place = v]
                  [] OpenContext[1] = "INDI"
                        /\ OpenContext[2] \notin {"BIRT", "DEAT"} ->
                       /\ current_record'.birth_date = current_record.birth_date
                       /\ current_record'.birth_place = current_record.birth_place
                       /\ current_record'.death_date = current_record.death_date
                       /\ current_record'.death_place = current_record.death_place
                  [] OpenContext[1] = "FAM" /\ OpenContext[2] # "MARR" ->
                       /\ current_record'.marriage_date = current_record.marriage_date
                       /\ current_record'.marriage_place = current_record.marriage_place
                  [] OTHER -> current_record' = current_record]_vars

\* the number of level-1 OBJE lines of the current record
ObjeTags ==
    Cardinality({k \in Level1OfRecord(consumed) :
                    parse_line(consumed[k].parts).tag = "OBJE"})

\* C15: the individual in progress has at most as many objects as its record
\* has level-1 OBJE tags.
C15_OneFilePerObje ==
    (pstate = "parsing" /\ LastLevel0Tag(consumed) = "INDI") =>
        Len(current_record.objects) <= ObjeTags

\* C16: in a family record a level-2 DATE after a level-1 ENGA is recorded
\* as the engagement date, after a level-1 DIV as the divorce date, and in
\* both cases leaves the marriage date as it was.
C16_EngagementAndDivorceDates ==
    [][TakesLevel2("DATE") =>
          /\ OpenContext = <<"FAM", "ENGA">> =>
                current_record' =
                   [current_record EXCEPT !.engagement_date = TakenLine.value]
          /\ OpenContext = <<"FAM", "DIV">> =>
                current_record' =
                   [current_record EXCEPT !.divorce_date = TakenLine.value]]_vars

\* what the lookup last made returned is right for this dictionary
LookupAnswers(dict) ==
    IF group.id \in Keys(dict)
    THEN /\ group.result \in Range(dict)
         /\ group.result.id = group.id
    ELSE IsNone(group.result)

\* C19: get_individual and get_family return the stored entity for an id
\* that is a key and None for every other id, dangling ids referenced by a
\* family included; they raise nothing and leave both dictionaries as they
\* were.
C19_LookupsNeverRaise ==
    /\ []("lookup" \in DOMAIN group =>
             IF group.lookup = "individual" THEN LookupAnswers(individuals)
             ELSE LookupAnswers(families))
    /\ [][individuals' = individuals /\ families' = families]_vars

\* C19: a lookup of a dangling id that the family names as its husband
C19_Witness ==
    /\ "lookup" \in DOMAIN group
    /\ group.lookup = "individual"
    /\ group.id = DanglingInd
    /\ \E i \in 1..Len(families) : families[i].husband_id = DanglingInd
    /\ IsNone(group.result)

\* a run of exactly four consecutive digits starts at i
FourDigitRunAt(s, i) ==
    /\ i + 3 <= Len(s)
    /\ \A j \in i..(i + 3) : IsDigit(s[j])
    /\ (i = 1 \/ ~IsDigit(s[i - 1]))
    /\ (i + 3 = Len(s) \/ ~IsDigit(s[i + 4]))

\* the first run of exactly four consecutive digits of the text as a
\* number, NoYear when the text has no such run
FirstFourDigitRun(d) ==
    LET s == DateChars(d)
        runs == {i \in 1..Len(s) : FourDigitRunAt(s, i)}
    IN IF runs = {} THEN NoYear
       ELSE LET i == CHOOSE k \in runs : \A m \in runs : k <= m
            IN DigitVal(s[i]) * 1000 + DigitVal(s[i + 1]) * 100
               + DigitVal(s[i + 2]) * 10 + DigitVal(s[i + 3])

\* C20: get_birth_year returns the first run of exactly four consecutive
\* digits of the birth date, whatever surrounds the run, and no year exactly
\* when the text has no such run.
C20_YearIsFirstFourDigitRun ==
    "year" \in DOMAIN group =>
        group.year = FirstFourDigitRun(IndividualOf(group.individual).birth_date)

\* the individual that id names in the tree, or None: the lookup stated
\* without DictGet
Lookup(id) ==
    IF \E i \in 1..Len(individuals) : individuals[i].id = id
    THEN individuals[CHOOSE i \in 1..Len(individuals) : individuals[i].id = id]
    ELSE NoneRec

\* the children ids of a family that name an individual of the tree
ResolvableChildren(family) ==
    {family.children_ids[k] : k \in 1..Len(family.children_ids)}
        \cap {individuals[i].id : i \in 1..Len(individuals)}

\* C21: get_all_family_groups returns exactly one group per family, in
\* family-insertion order; the husband and the wife of each group are what the
\* lookup of the family's husband_id and wife_id gives (None when the id is
\* unset or dangling), and its children are exactly the children of the family
\* that resolve, each once.
C21_OneGroupPerFamily ==
    GroupCalls > 0 =>
        /\ Len(group.last) = Len(families)
        /\ \A i \in 1..Len(families) :
              LET g == group.last[i]
              IN /\ g.family = families[i]
                 /\ g.husband = Lookup(families[i].husband_id)
                 /\ g.wife = Lookup(families[i].wife_id)
                 /\ {g.children[k].id : k \in 1..Len(g.children)}
                        = ResolvableChildren(families[i])
                 /\ Len(g.children) = Cardinality(ResolvableChildren(families[i]))
                 /\ \A k \in 1..Len(g.children) :
                        g.children[k] = Lookup(g.children[k].id)

\* a call has returned for a tree with a dangling husband, an unset wife and
\* a family with a resolvable and a dangling child
C21_Witness ==
    /\ GroupCalls > 0
    /\ families[1].husband_id = DanglingInd
    /\ families[1].wife_id = None
    /\ DanglingInd \in Range(families[2].children_ids)
    /\ ResolvableChildren(families[2]) # {}

\* C22: get_all_family_groups called twice on the same tree returns the same
\* output both times: the same groups, in the same order, with the same
\* children order in each group.
C22_GroupsIdempotent ==
    GroupCalls >= 2 => group.last = group.first

\* the second call has returned, for a tree whose families both have two
\* resolvable children
C22_Witness ==
    /\ GroupCalls >= 2
    /\ \A i \in 1..Len(families) : Cardinality(ResolvableChildren(families[i])) = 2

\* some family names the id as its husband, its wife or one of its children
NamedByFamily(id) ==
    \E i \in 1..Len(families) :
        \/ families[i].husband_id = id
        \/ families[i].wife_id = id
        \/ \E k \in 1..Len(families[i].children_ids) : families[i].children_ids[k] = id

\* the id is the husband, the wife or a child of a group of get_all_family_groups
InSomeGroup(id) ==
    LET groups == get_all_family_groups(<<>>)
    IN \E i \in 1..Len(groups) :
          \/ (~IsNone(groups[i].husband) /\ groups[i].husband.id = id)
          \/ (~IsNone(groups[i].wife) /\ groups[i].wife.id = id)
          \/ \E k \in 1..Len(groups[i].children) : groups[i].children[k].id = id

\* C23: when HtmlRenderer has listed the unconnected individuals, an individual
\* is in the list if and only if no family names it as husband, wife or child;
\* a listed individual is listed once, is in no family group and has no card
\* in a family unit, and an individual named by some family is not listed.
C23_OrphansAreTheUnnamed ==
    (renderer = "html" /\ phase = "done") =>
        /\ \A i \in 1..Len(individuals) :
              (\E k \in 1..Len(orphans) : orphans[k] = individuals[i])
                  <=> ~NamedByFamily(individuals[i].id)
        /\ \A k \in 1..Len(orphans) :
              /\ \E i \in 1..Len(individuals) : orphans[k] = individuals[i]
              /\ ~InSomeGroup(orphans[k].id)
              /\ orphans[k].id \notin EmittedIds
              /\ \A m \in 1..Len(orphans) : orphans[m].id = orphans[k].id => m = k

\* a finished html render of a tree with an individual no family names, an
\* individual that is only a child and one that is only a husband
C23_Witness ==
    /\ renderer = "html" /\ phase = "done"
    /\ Len(orphans) = 1
    /\ \E i \in 1..Len(individuals) :
          /\ individuals[i].family_spouse = <<>>
          /\ individuals[i].family_child # <<>>
    /\ \E i \in 1..Len(individuals) :
          /\ individuals[i].family_spouse # <<>>
          /\ individuals[i].family_child = <<>>

\* the persons AsciiRenderer.render emitted in its last loop, in order
Unconnected == SelectSeq(output, LAMBDA e : e.role = "unconnected")

\* C24: when AsciiRenderer.render has returned, the individuals it emitted in
\* its post-pass are in ascending order of display name (the name if there is
\* one, else the id), whatever the order of their insertion into the tree.
C24_AsciiUnconnectedByName ==
    (renderer = "ascii" /\ phase = "done") =>
        \A i, j \in 1..Len(Unconnected) :
            i < j => ~NameLess(name(IndividualOf(Unconnected[j].id)),
                               name(IndividualOf(Unconnected[i].id)))

\* the whole render of one instance that runs alone on the tree, from a new
\* rendered set: the root families in turn, then the remaining individuals
RECURSIVE RootsAlone(_, _, _)
RootsAlone(kind, roots, st) ==
    IF roots = <<>> \/ st.err THEN st
    ELSE RootsAlone(kind, Tail(roots),
                    IF kind = "html" THEN H_render_family_tree(Head(roots), st)
                    ELSE A_render_family_tree(Head(roots), st))

RenderAlone(kind) ==
    LET st0 == [rendered |-> {}, output |-> <<>>, err |-> FALSE, depth |-> 0]
        st1 == RootsAlone(kind, IF kind = "html" THEN H_find_root_families
                                ELSE A_find_root_families, st0)
    IN IF kind = "ascii" THEN A_unconnected_loop(individuals, st1) ELSE st1

IsPrefix(a, b) == Len(a) <= Len(b) /\ SubSeq(b, 1, Len(a)) = a

\* C25: of two renders of the same tree by two renderer instances whose steps
\* interleave in any order, each emits at every moment a prefix of what it
\* emits when it runs alone, and all of it when it has finished, with the
\* rendered set it has alone; and no step of one instance changes a field of
\* the other.
C25_InterleavedAsAlone ==
    /\ [](/\ IsPrefix(output, RenderAlone(renderer).output)
          /\ IsPrefix(second.output, RenderAlone(second.kind).output)
          /\ (phase = "done" =>
                /\ output = RenderAlone(renderer).output
                /\ rendered_individuals = RenderAlone(renderer).rendered)
          /\ (second.phase = "done" =>
                /\ second.output = RenderAlone(second.kind).output
                /\ second.rendered = RenderAlone(second.kind).rendered))
    /\ [][(second' # second => firstVars' = firstVars)
          /\ (firstVars' # firstVars => second' = second)]_vars

\* both instances have rendered the first of two root families and neither
\* has finished: their steps have interleaved
C25_Witness ==
    /\ phase = "roots" /\ root_idx = 2 /\ Len(root_families) = 2
    /\ second.phase = "roots" /\ second.root_idx = 2
    /\ Len(output) >= 2 /\ Len(second.output) >= 2

\* C26: render called twice on the same renderer instance over the same tree
\* returns the same document both times: the same persons in the same order
\* and the same unconnected individuals, so nothing the first call emitted is
\* missing from the second; and every render starts from an empty rendered set.
C26_RenderTwiceSame ==
    /\ (Len(returned) >= 2 => returned[2] = returned[1])
    /\ (phase = "roots" /\ root_idx = 1 => rendered_individuals = {})

\* the second render of an instance has returned a document with three persons
C26_Witness ==
    /\ Len(returned) = 2
    /\ returned[1].kind = "document"
    /\ Len(returned[1].output) >= 3

HasDanglingPointer ==
    \/ \E i \in 1..Len(families) :
          \/ (Truthy(families[i].husband_id) /\ families[i].husband_id \notin Keys(individuals))
          \/ (Truthy(families[i].wife_id) /\ families[i].wife_id \notin Keys(individuals))
          \/ \E k \in 1..Len(families[i].children_ids) :
                families[i].children_ids[k] \notin Keys(individuals)
    \/ \E i \in 1..Len(individuals) :
          \/ \E k \in 1..Len(individuals[i].family_spouse) :
                individuals[i].family_spouse[k] \notin Keys(families)
          \/ \E k \in 1..Len(individuals[i].family_child) :
                individuals[i].family_child[k] \notin Keys(families)

\* C28: on a tree with dangling HUSB, WIFE, CHIL, FAMS or FAMC pointers both
\* renderers run to their end without an error, in no more steps than one per
\* family and two more; every person emitted or listed as unconnected and
\* every id in the rendered set is an individual of the tree, and every
\* family a person is emitted under is a family of the tree.
C28_DanglingTolerated ==
    (renderer \in {"html", "ascii"} /\ HasDanglingPointer) =>
        /\ phase \in {"new", "roots", "done"}
        /\ (phase # "done" => RenderEnabled)
        /\ steps <= Len(families) + 2
        /\ rendered_individuals \subseteq {individuals[i].id : i \in 1..Len(individuals)}
        /\ \A k \in 1..Len(output) :
              /\ \E i \in 1..Len(individuals) : individuals[i].id = output[k].id
              /\ (output[k].fam = None
                    \/ \E i \in 1..Len(families) : families[i].id = output[k].fam)
        /\ \A k \in 1..Len(orphans) :
              \E i \in 1..Len(individuals) : individuals[i] = orphans[k]

\* a finished render of a tree with a dangling husband, a dangling child next
\* to a child that was emitted, and dangling FAMS and FAMC entries
C28_Witness ==
    /\ phase = "done"
    /\ families[1].husband_id = DanglingInd
    /\ \E i \in 1..Len(families) :
          /\ DanglingInd \in Range(families[i].children_ids)
          /\ \E k \in 1..Len(output) :
                output[k].fam = families[i].id /\ output[k].role = "child"
    /\ \E i \in 1..Len(individuals) : DanglingFam \in Range(individuals[i].family_spouse)
    /\ \E i \in 1..Len(individuals) : DanglingFam \in Range(individuals[i].family_child)

FamilyOf(id) == families[CHOOSE k \in 1..Len(families) : families[k].id = id]

\* C29: when AsciiRenderer.render has returned, every person it emitted as a
\* child, in a family unit or inside a descendant family, is followed by its
\* own families: for each existing family of its family_spouse, every child
\* of that family that resolves is emitted after it as a child of that
\* descendant family (and so not in the unconnected post-pass).
C29_AsciiRecursesEveryGeneration ==
    (renderer = "ascii" /\ phase = "done") =>
        \A k \in 1..Len(output) :
            output[k].role \in {"child", "descendant_child"} =>
                \A f \in 1..Len(IndividualOf(output[k].id).family_spouse) :
                    LET fid == IndividualOf(output[k].id).family_spouse[f]
                    IN fid \in Keys(families) =>
                          \A c \in Range(FamilyOf(fid).children_ids) \cap Keys(individuals) :
                              \E m \in (k + 1)..Len(output) :
                                  output[m] = [id |-> c, role |-> "descendant_child",
                                               fam |-> fid]

\* C30: no query of the tree (get_individual, get_family, get_roots,
\* get_family_group, get_all_family_groups) and no step of AsciiRenderer,
\* HtmlRenderer or FamilyFormatter changes the tree: the individuals, the
\* families, every field of each, the order of every children_ids list, the
\* header and the submitter are after the step what they were before it.
C30_TreeFrozen ==
    [][/\ individuals' = individuals
       /\ families' = families
       /\ header' = header
       /\ submitter' = submitter]_vars

\* a call has returned a group whose children are in another order than the
\* children_ids of its family
C30_Witness ==
    /\ "children" \in DOMAIN group
    /\ Len(group.children) = 2
    /\ group.family.children_ids # <<group.children[1].id, group.children[2].id>>
    /\ group.family \in Range(families)

\* no value is at two places of the list
NoRepeat(s) == \A i, j \in 1..Len(s) : s[i] = s[j] => i = j

\* C31: when parse_file has returned, no individual of the tree has the same
\* family id twice in its family_spouse or twice in its family_child,
\* whatever FAMS and FAMC lines its record repeated.
C31_FamilyLinksAreSets ==
    pstate = "returned" =>
        \A i \in 1..Len(individuals) :
            /\ NoRepeat(individuals[i].family_spouse)
            /\ NoRepeat(individuals[i].family_child)

\* the characters of the name texts of the model
Chars(v) ==
    CASE v = "Ann /Doe/" -> <<"A", "n", "n", " ", "/", "D", "o", "e", "/">>
      [] v = "/Doe/" -> <<"/", "D", "o", "e", "/">>
      [] v = "Bob /Doe" -> <<"B", "o", "b", " ", "/", "D", "o", "e">>
      [] v = "Ann / Doe /" -> <<"A", "n", "n", " ", "/", " ", "D", "o", "e", " ", "/">>
      [] v = "Bob" -> <<"B", "o", "b">>
      [] v = "Ann" -> <<"A", "n", "n">>
      [] v = "Doe" -> <<"D", "o", "e">>
      [] v = "" -> <<>>
      [] OTHER -> <<"?", v>>

\* the positions of the slashes of a text, the text between two positions,
\* and a text without its leading and trailing blanks
SlashesOf(cs) == {i \in 1..Len(cs) : cs[i] = "/"}
FirstSlash(cs) == CHOOSE i \in SlashesOf(cs) : \A j \in SlashesOf(cs) : i <= j
SecondSlash(cs) ==
    IF Cardinality(SlashesOf(cs)) >= 2
    THEN CHOOSE i \in SlashesOf(cs) \ {FirstSlash(cs)} :
            \A j \in SlashesOf(cs) \ {FirstSlash(cs)} : i <= j
    ELSE Len(cs) + 1
RECURSIVE StripChars(_)
StripChars(cs) ==
    IF cs = <<>> THEN cs
    ELSE IF Head(cs) = " " THEN StripChars(Tail(cs))
    ELSE IF cs[Len(cs)] = " " THEN StripChars(SubSeq(cs, 1, Len(cs) - 1))
    ELSE cs

\* the step takes a level-1 NAME line while an individual is in progress
TakesName ==
    /\ TakesLevel(1)
    /\ TakenLine.tag = "NAME"
    /\ current_type = "INDI"
    /\ RecordTruthy(current_record)

\* C32: a level-1 NAME line of an individual with a value that has a slash
\* sets given_name to the text before the first slash and surname to the text
\* between the first and the second slash (or the end), both without leading
\* and trailing blanks; with a value without slash it sets given_name to the
\* value and leaves surname as it was; without value it changes nothing.  No
\* other field of the record changes.
C32_NameSplit ==
    [][TakesName =>
          LET v == TakenLine.value
              cs == Chars(v)
          IN /\ [current_record' EXCEPT !.given_name = current_record.given_name,
                                        !.surname = current_record.surname]
                    = current_record
             /\ IF v = None THEN current_record' = current_record
                ELSE IF SlashesOf(cs) # {}
                THEN /\ Chars(current_record'.given_name)
                          = StripChars(SubSeq(cs, 1, FirstSlash(cs) - 1))
                     /\ Chars(current_record'.surname)
                          = StripChars(SubSeq(cs, FirstSlash(cs) + 1, SecondSlash(cs) - 1))
                ELSE /\ Chars(current_record'.given_name) = StripChars(cs)
                     /\ current_record'.surname = current_record.surname]_vars

\* a NAME line without slash was taken after one with given name and surname:
\* the record has the new given name and the surname it had
C32_Witness ==
    /\ Len(consumed) = 3
    /\ consumed[2] = Line(<<"1", "NAME", "Ann / Doe /">>)
    /\ consumed[3] = Line(<<"1", "NAME", "Bob">>)
    /\ current_type = "INDI"
    /\ current_record.given_name = "Bob"
    /\ current_record.surname = "Doe"

\* the level-0 lines taken so far that declare this pointer with this tag
DeclaredTimes(tag, id) ==
    Cardinality({k \in 1..Len(consumed) :
                    /\ ~consumed[k].blank
                    /\ parse_line(consumed[k].parts).ok
                    /\ parse_line(consumed[k].parts).level = 0
                    /\ parse_line(consumed[k].parts).tag = tag
                    /\ parse_line(consumed[k].parts).value = id})

\* C33: a step that takes a level-1 or a level-2 line leaves the individuals,
\* the families, the header and the submitter of the tree as they were; and
\* while a record declared once is in progress, get_individual or get_family
\* of its id finds nothing.
C33_NoCommitInsideRecord ==
    /\ [][(TakesLevel(1) \/ TakesLevel(2)) => TreeState' = TreeState]_vars
    /\ [](pstate = "parsing" =>
            /\ (current_type = "INDI" /\ DeclaredTimes("INDI", current_record.id) = 1)
                  => IsNone(get_individual(current_record.id))
            /\ (current_type = "FAM" /\ DeclaredTimes("FAM", current_record.id) = 1)
                  => IsNone(get_family(current_record.id)))

\* an individual in progress has its name and its birth date and the tree has
\* no individual yet
C33_Witness ==
    /\ pstate = "parsing"
    /\ current_type = "INDI"
    /\ current_record.birth_date = "1990"
    /\ current_record.given_name = "Ann"
    /\ individuals = <<>>

\* the sub-contexts that are open
OpenFlags ==
    (IF current_birth THEN {"birth"} ELSE {})
    \cup (IF current_death THEN {"death"} ELSE {})
    \cup (IF current_marriage THEN {"marriage"} ELSE {})
    \cup (IF current_object THEN {"object"} ELSE {})

\* the fields of the record in progress that a step changes
ChangedFields ==
    IF DOMAIN current_record' # DOMAIN current_record THEN DOMAIN current_record'
    ELSE {f \in DOMAIN current_record : current_record'[f] # current_record[f]}

\* C34: at every point of a parse pass at most one of the birth, death,
\* marriage and object sub-contexts is open, and a step that takes a level-2
\* line writes at most one field of the record in progress.
C34_OneOpenContext ==
    /\ [](Cardinality(OpenFlags) <= 1)
    /\ [][TakesLevel(2) => Cardinality(ChangedFields) <= 1]_vars

\* a death context was opened after a birth context in the same record, and
\* a level-2 line was taken under it
C34_Witness ==
    /\ Len(consumed) = 4
    /\ consumed[2] = Line(<<"1", "BIRT">>)
    /\ consumed[3] = Line(<<"1", "DEAT">>)
    /\ OpenFlags = {"death"}
    /\ current_record.death_date = "1990"

\* the persons emitted as parents of a family unit
IsParentEvent(e) == e.role \in {"husband", "wife"}

\* the root families whose turn of the loop is over
RootsDone == {root_families[i].id : i \in 1..(root_idx - 1)}

\* C35: in one traversal the root families are taken in family-insertion
\* order; the parents of a family unit are emitted before its children, the
\* husband before the wife, and the units follow each other in the order of
\* the root families; a spouse or a child of a descendant family is emitted
\* after the child whose family it is; and an unconnected individual is
\* emitted or listed only when the last root family has been traversed, after
\* every other person.
C35_VisitOrder ==
    renderer \in {"html", "ascii"} =>
        /\ \A i, j \in 1..Len(root_families) :
              i < j => IndexOfFamily(root_families[i].id)
                          < IndexOfFamily(root_families[j].id)
        /\ \A a, b \in 1..Len(output) :
              a < b =>
                 /\ (IsParentEvent(output[a]) /\ IsParentEvent(output[b]))
                       => /\ IndexOfFamily(output[a].fam) <= IndexOfFamily(output[b].fam)
                          /\ (output[a].fam = output[b].fam => output[a].role = "husband")
                 /\ (IsParentEvent(output[b]) /\ ~IsParentEvent(output[a]))
                       => /\ output[a].fam # output[b].fam
                          /\ output[a].role # "unconnected"
                 /\ output[a].role = "unconnected" => output[b].role = "unconnected"
        /\ \A m \in 1..Len(output) :
              /\ output[m].role \in {"spouse", "descendant_child"}
                    => \E k \in 1..(m - 1) :
                          /\ output[k].role = "child"
                          /\ output[m].fam \in Range(IndividualOf(output[k].id).family_spouse)
              /\ output[m].role = "child"
                    => \/ output[m].fam \in RootsDone
                       \/ \E k \in 1..(m - 1) :
                             /\ output[k].role = "child"
                             /\ output[m].fam \in Range(IndividualOf(output[k].id).family_spouse)
              /\ output[m].role = "unconnected"
                    => phase = "done"
        /\ (orphans # <<>> => phase = "done")

\* a finished traversal of two root families that emitted a husband and a
\* wife, a child, and the spouse of that child in a descendant family
C35_Witness ==
    /\ phase = "done"
    /\ Len(root_families) = 2
    /\ \E a, b, c, d \in 1..Len(output) :
          /\ a < b /\ b < c /\ c < d
          /\ output[a].role = "husband"
          /\ output[b].role = "wife"
          /\ output[c].role = "child"
          /\ output[d].role = "spouse"

\* the line taken last, before this step, is a level-0 line that starts an
\* individual
AfterNewIndividual ==
    /\ consumed # <<>>
    /\ LET l == consumed[Len(consumed)]
       IN /\ ~l.blank
          /\ parse_line(l.parts).ok
          /\ parse_line(l.parts).level = 0
          /\ parse_line(l.parts).tag = "INDI"

\* C36: a level-2 DATE, PLAC or FILE line that comes directly after the
\* level-0 line of a new individual, before any level-1 line of that record,
\* writes no field of the new record, whatever sub-context the record before
\* left open.
C36_Level0ClosesContext ==
    [][(AfterNewIndividual /\ TakesLevel(2)
            /\ TakenLine.tag \in {"DATE", "PLAC", "FILE"})
          => current_record' = current_record]_vars

\* the dictionary after the commit of a record: the record alone under its
\* key, at the place the key had, or at the end for a new key; every other
\* entry as it was
PutAlone(before, after, rec) ==
    /\ KeyOnce(after, rec.id)
    /\ Len(after) = IF \E i \in 1..Len(before) : before[i].id = rec.id
                    THEN Len(before)
                    ELSE Len(before) + 1
    /\ \A i \in 1..Len(after) :
          after[i] = IF i > Len(before) \/ before[i].id = rec.id
                     THEN rec
                     ELSE before[i]

\* the step commits the record in progress: it takes a level-0 line, or it
\* is the return of parse_file
Commits(type) ==
    /\ TakesLevel(0) \/ (pstate = "parsing" /\ pstate' = "returned")
    /\ current_type = type
    /\ RecordTruthy(current_record)

\* C37: a level-0 INDI or FAM line starts a record that has the id of the
\* line and nothing else, whether or not the tree has an entry for the id;
\* the commit of a record puts that record alone under its id, at the place
\* the id had in the dictionary if it was a key and at the end otherwise,
\* and leaves every other entry as it was.
C37_LaterRecordAlone ==
    [][/\ (TakesLevel(0) /\ TakenLine.tag = "INDI")
             => current_record' = Individual(TakenLine.value)
       /\ (TakesLevel(0) /\ TakenLine.tag = "FAM")
             => current_record' = Family(TakenLine.value)
       /\ Commits("INDI") => /\ PutAlone(individuals, individuals', current_record)
                             /\ families' = families
       /\ Commits("FAM") => /\ PutAlone(families, families', current_record)
                            /\ individuals' = individuals]_vars

\* a returned pass over @I1@ with a name, @I2@ and @I1@ again: @I1@ is the
\* first key and has no name
C37_Witness ==
    /\ pstate = "returned"
    /\ consumed = <<Line(<<"0", "@I1@", "INDI">>), Line(<<"1", "NAME", "Ann /Doe/">>),
                    Line(<<"0", "@I2@", "INDI">>), Line(<<"0", "@I1@", "INDI">>)>>
    /\ individuals = <<Individual("@I1@"), Individual("@I2@")>>

\* a parser as GedcomParser() makes it
NewParser ==
    [individuals |-> <<>>, families |-> <<>>, header |-> NoneRec,
     submitter |-> NoneRec, current_type |-> None, current_record |-> NoneRec,
     current_birth |-> FALSE, current_death |-> FALSE,
     current_marriage |-> FALSE, current_object |-> FALSE]

\* the parser after the first k of these lines, which all have an integer
\* level
RECURSIVE AfterLines(_, _)
AfterLines(lines, k) ==
    IF k = 0 THEN NewParser
    ELSE IF lines[k].blank THEN AfterLines(lines, k - 1)
    ELSE dispatch_line(AfterLines(lines, k - 1), parse_line(lines[k].parts))

\* the tree parse_file of a new parser returns for these lines
TreeOfLines(lines) ==
    LET P == save_current_record(AfterLines(lines, Len(lines)))
    IN <<P.individuals, P.families, P.header, P.submitter>>

\* C38: when a call of parse_file returns, the tree it returns is the tree a
\* new parser returns for the lines of that call, also when the parser has
\* parsed another file before.
C38_TreeFromThisInputOnly ==
    pstate = "returned" => TreeState = TreeOfLines(consumed)

\* the id is printed as husband, wife or child of one of these groups
ListedInGroups(groups, id) ==
    \E i \in 1..Len(groups) :
        \/ (~IsNone(groups[i].husband) /\ groups[i].husband.id = id)
        \/ (~IsNone(groups[i].wife) /\ groups[i].wife.id = id)
        \/ \E k \in 1..Len(groups[i].children) : groups[i].children[k].id = id

\* the places the id has in this list of individuals
PlacesIn(list, id) == {k \in 1..Len(list) : list[k].id = id}

\* C39: in the result of format_grouped_families every individual of the
\* tree is husband, wife or child of a family group or is once in the list
\* of the individuals not in families, and never both; the list holds
\* individuals of the tree only and is in ascending order of display name.
C39_GroupedOrListed ==
    "formatted" \in DOMAIN group =>
        /\ \A i \in 1..Len(individuals) :
              IF ListedInGroups(group.formatted, individuals[i].id)
              THEN PlacesIn(group.orphans, individuals[i].id) = {}
              ELSE Cardinality(PlacesIn(group.orphans, individuals[i].id)) = 1
        /\ \A k \in 1..Len(group.orphans) :
              \E i \in 1..Len(individuals) : individuals[i] = group.orphans[k]
        /\ \A a, b \in 1..Len(group.orphans) :
              a < b => ~NameLess(name(group.orphans[b]), name(group.orphans[a]))

\* a formatted tree with a husband in the group of the family and two listed
\* individuals whose order by name is not the order of their insertion
C39_Witness ==
    /\ "formatted" \in DOMAIN group
    /\ ListedInGroups(group.formatted, "I1")
    /\ Len(group.orphans) = 2
    /\ group.orphans[1].id = "I3"
    /\ group.orphans[2].id = "I2"
    /\ NameLess(name(group.orphans[1]), name(group.orphans[2]))

=========================================================================
